---- MODULE Spec2Model ----
(***************************************************************************)
(* Model of the calculator state store (frontend/src/lib/store.ts) and of  *)
(* the helpers it uses (frontend/src/lib/utils.ts).                        *)
(*                                                                         *)
(* A JavaScript string is a sequence of one-character strings, so that     *)
(* concatenation, slicing and the regular-expression replacements of the   *)
(* source are computed and not assumed.  A JavaScript number is a record:  *)
(*   [k |-> "num", n |-> numerator, d |-> denominator]  a finite value,    *)
(*   [k |-> "nzero"]  the value -0,                                        *)
(*   [k |-> "pinf"], [k |-> "ninf"], [k |-> "nan"]  the non-finite values. *)
(* Finite values are exact rationals: the model is exact where IEEE-754    *)
(* double arithmetic is exact and cuts a non-terminating quotient to 17    *)
(* significant digits when it is printed.                                  *)
(***************************************************************************)
EXTENDS Integers, Sequences, FiniteSets, TLC

VARIABLES display, input, result, latex, memory, history, mode,
          isShiftActive, isInverseActive, isHyperbolicActive, precision,
          error, lastOp,
          sanitizedInput, valueToFormat, formattedResult,
          stats, requests, units, graph, matrix, cas

vars == <<display, input, result, latex, memory, history, mode,
          isShiftActive, isInverseActive, isHyperbolicActive, precision,
          error, lastOp,
          sanitizedInput, valueToFormat, formattedResult,
          stats, requests, units, graph, matrix, cas>>

(***************************************************************************)
(* Bounds of the exploration.                                              *)
(***************************************************************************)
\* longest input (in characters) the keypad is explored to
MaxInputLen == 2
\* longest input explored with the division key
MaxDivLen == 3
\* longest input explored with the trigonometry keys
MaxTrigLen == 6
\* entries the history is explored to when it starts empty
MaxHistory == 1
\* calculations explored on top of a history that starts one below capacity
MaxFresh == 2
\* most requests of the statistics panel in flight at a time
MaxIndex == 1
MaxRequests == 2
\* largest numerator of the numbers formatNumber is explored on
MaxNumerator == 6
\* longest input, in keypad tokens, the rewrite is explored to
MaxTokens == 2
\* largest number the memory is explored to hold
MaxMemValue == 0
\* largest magnitude of a memory value where the memory buttons are explored
MaxStored == 16

(***************************************************************************)
(* Program constants.                                                      *)
(***************************************************************************)
HistoryCap == 100
DefaultPrecision == 10

Null == "null"
ErrorMessage == "Error in calculation"
Modes == {"DEG", "RAD", "GRAD"}

(***************************************************************************)
(* Characters and strings.                                                 *)
(***************************************************************************)
Empty == << >>
Digits == {"0", "1", "2", "3", "4", "5", "6", "7", "8", "9"}
DigitSeq == <<"0", "1", "2", "3", "4", "5", "6", "7", "8", "9">>
Letters == {"a", "b", "c", "g", "h", "i", "l", "n", "o", "q", "r", "s", "t",
            "y", "E", "I", "M", "N", "P", "f"}
DigitVal(c) == CHOOSE i \in 0..9 : DigitSeq[i + 1] = c
DigitChar(i) == DigitSeq[i + 1]

\* s.slice(from) with a 1-based index
Drop(s, k) == SubSeq(s, k + 1, Len(s))
Take(s, k) == SubSeq(s, 1, k)
StartsWith(s, p) == Len(s) >= Len(p) /\ Take(s, Len(p)) = p

\* String.prototype.replace with a global literal pattern: every
\* non-overlapping occurrence, scanning left to right
RECURSIVE ReplaceAll(_, _, _)
ReplaceAll(s, pat, rep) ==
  IF Len(s) < Len(pat) THEN s
  ELSE IF StartsWith(s, pat)
       THEN rep \o ReplaceAll(Drop(s, Len(pat)), pat, rep)
       ELSE <<Head(s)>> \o ReplaceAll(Tail(s), pat, rep)

RECURSIVE NatToStr(_)
NatToStr(n) ==
  IF n < 10 THEN <<DigitChar(n)>>
  ELSE NatToStr(n \div 10) \o <<DigitChar(n % 10)>>

\* what the operations of the store leave alone: the local variables of
\* its helpers when they are run on their own, and the other panels
Components ==
  <<sanitizedInput, valueToFormat, formattedResult, stats, requests,
    units, graph, matrix, cas>>

\* StatsCalculator: the useState initial values
StatsIdle ==
  [dataInput |-> Empty, secondDataInput |-> Empty,
   statType |-> "descriptive", hypothesisSubtype |-> "one_sample",
   results |-> Null, loading |-> FALSE, error |-> "",
   visualizationImage |-> Null, visualizationType |-> Null]

Stats == <<stats, requests>>
Panels == <<units, graph, matrix, cas>>

\* UnitsConverter: the useState initial values; pending counts the
\* requests sent and not yet settled
UnitsIdle ==
  [fromValue |-> Empty, toValue |-> "", formula |-> "", loading |-> FALSE,
   error |-> "", pending |-> 0]

\* GraphCalculator
GraphIdle ==
  [xMin |-> <<"-", "1", "0">>, xMax |-> <<"1", "0">>,
   yMin |-> <<"-", "1", "0">>, yMax |-> <<"1", "0">>,
   plotImage |-> "", isLoading |-> FALSE, error |-> "", pending |-> 0]

\* Array(rows).fill(0).map(() => Array(cols).fill('0'))
ZeroMatrix(rows_, cols_) == [i \in 1..rows_ |-> [j \in 1..cols_ |-> <<"0">>]]

\* MatrixCalculator; effectPending is set from a render that changed rows
\* or cols until the effect has run, mounted is cleared when it throws
MatrixIdle ==
  [rows |-> 3, cols |-> 3, matrixA |-> ZeroMatrix(3, 3),
   matrixB |-> ZeroMatrix(3, 3), operation |-> "add", result |-> Null,
   isLoading |-> FALSE, error |-> "", pending |-> 0,
   effectPending |-> FALSE, mounted |-> TRUE]

\* CasCalculator
CasIdle ==
  [input |-> Empty, result |-> "", latex |-> "", loading |-> FALSE,
   error |-> "", operation |-> "simplify", pending |-> 0]

InitComponents ==
  /\ sanitizedInput = Empty
  /\ valueToFormat = [type |-> "string", s |-> Empty]
  /\ formattedResult = Empty
  /\ stats = StatsIdle
  /\ requests = << >>
  /\ units = UnitsIdle
  /\ graph = GraphIdle
  /\ matrix = MatrixIdle
  /\ cas = CasIdle

(***************************************************************************)
(* Numbers.                                                                *)
(***************************************************************************)
RECURSIVE Gcd(_, _)
Gcd(a, b) == IF b = 0 THEN a ELSE Gcd(b, a % b)
Abs(a) == IF a < 0 THEN -a ELSE a

NaN == [k |-> "nan"]
PosInf == [k |-> "pinf"]
NegInf == [k |-> "ninf"]
NegZero == [k |-> "nzero"]
Rat(n, d) ==
  LET g == Gcd(Abs(n), Abs(d))
      s == IF d < 0 THEN -1 ELSE 1
  IN [k |-> "num", n |-> (s * n) \div g, d |-> (s * d) \div g]
Zero == Rat(0, 1)

IsFiniteNum(v) == v.k \in {"num", "nzero"}
IsZero(v) == v.k = "nzero" \/ (v.k = "num" /\ v.n = 0)
\* the sign bit of a value that is not NaN
IsNegative(v) == v.k \in {"ninf", "nzero"} \/ (v.k = "num" /\ v.n < 0)
NumOf(v) == IF v.k = "num" THEN v.n ELSE 0
DenOf(v) == IF v.k = "num" THEN v.d ELSE 1
SignedZero(neg) == IF neg THEN NegZero ELSE Zero
SignedInf(neg) == IF neg THEN NegInf ELSE PosInf

Neg(v) ==
  CASE v.k = "nan" -> NaN
    [] v.k = "pinf" -> NegInf
    [] v.k = "ninf" -> PosInf
    [] v.k = "nzero" -> Zero
    [] OTHER -> IF v.n = 0 THEN NegZero ELSE Rat(-v.n, v.d)

Add(a, b) ==
  CASE a.k = "nan" \/ b.k = "nan" -> NaN
    [] a.k = "pinf" -> IF b.k = "ninf" THEN NaN ELSE PosInf
    [] a.k = "ninf" -> IF b.k = "pinf" THEN NaN ELSE NegInf
    [] b.k \in {"pinf", "ninf"} -> b
    [] a.k = "nzero" /\ b.k = "nzero" -> NegZero
    [] OTHER -> Rat(NumOf(a) * DenOf(b) + NumOf(b) * DenOf(a),
                    DenOf(a) * DenOf(b))

Sub(a, b) == Add(a, Neg(b))

Mul(a, b) ==
  LET neg == IsNegative(a) # IsNegative(b) IN
  CASE a.k = "nan" \/ b.k = "nan" -> NaN
    [] ~IsFiniteNum(a) -> IF IsZero(b) THEN NaN ELSE SignedInf(neg)
    [] ~IsFiniteNum(b) -> IF IsZero(a) THEN NaN ELSE SignedInf(neg)
    [] IsZero(a) \/ IsZero(b) -> SignedZero(neg)
    [] OTHER -> Rat(a.n * b.n, a.d * b.d)

Div(a, b) ==
  LET neg == IsNegative(a) # IsNegative(b) IN
  CASE a.k = "nan" \/ b.k = "nan" -> NaN
    [] ~IsFiniteNum(a) -> IF IsFiniteNum(b) THEN SignedInf(neg) ELSE NaN
    [] ~IsFiniteNum(b) -> SignedZero(neg)
    [] IsZero(b) -> IF IsZero(a) THEN NaN ELSE SignedInf(neg)
    [] IsZero(a) -> SignedZero(neg)
    [] OTHER -> Rat(a.n * b.d, a.d * b.n)

\* the digits of the fraction r/d (0 <= r < d), at most 'left' significant
\* ones; 'lead' is true while only leading zeros have been produced
RECURSIVE FracDigits(_, _, _, _)
FracDigits(r, d, left, lead) ==
  IF r = 0 \/ left = 0 THEN Empty
  ELSE LET q == (r * 10) \div d
           stillLead == lead /\ q = 0
       IN <<DigitChar(q)>> \o
          FracDigits((r * 10) % d, d, IF stillLead THEN left ELSE left - 1,
                     stillLead)

RECURSIVE StripZeros(_)
StripZeros(s) ==
  IF s # Empty /\ s[Len(s)] = "0" THEN StripZeros(Take(s, Len(s) - 1)) ELSE s

\* Number.prototype.toString (radix 10) of a finite value, positional form;
\* a double that has no shorter form is printed with 17 significant digits
FiniteToString(v) ==
  LET n == Abs(NumOf(v))
      d == DenOf(v)
      ip == NatToStr(n \div d)
      used == IF n \div d = 0 THEN 0 ELSE Len(ip)
      fp == StripZeros(FracDigits(n % d, d, 17 - used, n \div d = 0))
  IN (IF NumOf(v) < 0 THEN <<"-">> ELSE Empty) \o ip \o
     (IF fp = Empty THEN Empty ELSE <<".">> \o fp)

StrInfinity == <<"I", "n", "f", "i", "n", "i", "t", "y">>
StrNaN == <<"N", "a", "N">>

\* new Decimal(v).toString() for a JavaScript number v: the non-finite values
\* keep their JavaScript names and zero is printed unsigned
DecimalToString(v) ==
  CASE v.k = "nan" -> StrNaN
    [] v.k = "pinf" -> StrInfinity
    [] v.k = "ninf" -> <<"-">> \o StrInfinity
    [] OTHER -> FiniteToString(v)

(***************************************************************************)
(* Reading numbers out of strings.                                         *)
(***************************************************************************)
RECURSIVE DigitRun(_)
\* length of the longest prefix of s made of decimal digits
DigitRun(s) ==
  IF s # Empty /\ Head(s) \in Digits THEN 1 + DigitRun(Tail(s)) ELSE 0

RECURSIVE ParseNat(_)
ParseNat(s) ==
  IF s = Empty THEN 0
  ELSE ParseNat(Take(s, Len(s) - 1)) * 10 + DigitVal(s[Len(s)])

RECURSIVE Pow10(_)
Pow10(k) == IF k = 0 THEN 1 ELSE 10 * Pow10(k - 1)

\* a literal with il integer digits and, behind a dot, fl fraction digits
DecimalParts(s, il, hasDot, fl) ==
  [len |-> IF il = 0 /\ fl = 0 THEN 0 ELSE IF hasDot THEN il + 1 + fl ELSE il,
   il |-> il,
   v |-> Rat(ParseNat(Take(s, il) \o SubSeq(s, il + 2, il + 1 + fl)),
             Pow10(fl))]

DecimalAfterInt(s, il) ==
  IF Len(s) > il /\ s[il + 1] = "."
  THEN DecimalParts(s, il, TRUE, DigitRun(Drop(s, il + 1)))
  ELSE DecimalParts(s, il, FALSE, 0)

\* the decimal literal  digits [. digits]  or  . digits  that s starts with:
\* its length (0 when there is none), its integer digits and its value
DecimalPrefix(s) == DecimalAfterInt(s, DigitRun(s))

RECURSIVE TrimLeft(_)
TrimLeft(s) == IF s # Empty /\ Head(s) = " " THEN TrimLeft(Tail(s)) ELSE s

\* parseFloat(s): the value of the longest numeric prefix, NaN without one
\* (the exponent part of a literal is outside the strings explored)
ParseUnsigned(b, neg, lit) ==
  IF StartsWith(b, StrInfinity) THEN SignedInf(neg)
  ELSE IF lit.len = 0 THEN NaN
  ELSE IF neg THEN Neg(lit.v) ELSE lit.v

ParseSigned(t, b) == ParseUnsigned(b, t # Empty /\ Head(t) = "-", DecimalPrefix(b))

ParseTrimmed(t) ==
  ParseSigned(t, IF t # Empty /\ Head(t) \in {"+", "-"} THEN Tail(t) ELSE t)

parseFloat(s) == ParseTrimmed(TrimLeft(s))

\* !isNaN(Number(s)): the whole string is empty, a signed Infinity or a
\* signed decimal literal
IsNumericUnsigned(b, lit) ==
  b = StrInfinity \/ (lit.len > 0 /\ lit.len = Len(b))

IsNumericSigned(b) == IsNumericUnsigned(b, DecimalPrefix(b))

IsNumericString(s) ==
  \/ s = Empty
  \/ IsNumericSigned(IF Head(s) \in {"+", "-"} THEN Tail(s) ELSE s)

(***************************************************************************)
(* The expression evaluator: eval() of strict-mode code, restricted to     *)
(* the expressions the rewritten calculator input can be.  A value of kind *)
(* "other" is a number this model does not compute (an irrational constant *)
(* or function value, a power, a remainder); "fn" is a Math function.      *)
(***************************************************************************)
Other == [k |-> "other"]
Fn(name) == [k |-> "fn", name |-> name]
IsNumber(v) == v.k \in {"num", "nzero", "pinf", "ninf", "nan"}

ErrTok == [t |-> "err", v |-> Empty, op |-> ""]
Punct(c) == [t |-> "p", v |-> Empty, op |-> c]
WordChars == Letters \cup Digits \cup {"."}

RECURSIVE WordLen(_)
WordLen(s) ==
  IF s # Empty /\ Head(s) \in WordChars THEN 1 + WordLen(Tail(s)) ELSE 0

\* a numeric literal is rejected when it has a leading zero (a legacy octal
\* literal, strict mode) or when a letter follows it
NumericLiteralOk(s, lit) ==
  /\ ~(lit.il >= 2 /\ Head(s) = "0")
  /\ ~(Len(s) > lit.len /\ s[lit.len + 1] \in Letters)

\* the first token of a non-empty s and the number of characters it takes
LexNumber(s, lit) ==
  IF NumericLiteralOk(s, lit)
  THEN [tok |-> [t |-> "num", v |-> lit.v, op |-> ""], len |-> lit.len]
  ELSE [tok |-> ErrTok, len |-> Len(s)]

LexWord(s, n) == [tok |-> [t |-> "id", v |-> Take(s, n), op |-> ""], len |-> n]

FirstToken(s) ==
  IF Head(s) \in Digits \/ (Head(s) = "." /\ Len(s) >= 2 /\ s[2] \in Digits)
  THEN LexNumber(s, DecimalPrefix(s))
  ELSE IF Head(s) \in Letters THEN LexWord(s, WordLen(s))
  ELSE IF StartsWith(s, <<"+", "+">>) \/ StartsWith(s, <<"-", "-">>)
  THEN [tok |-> ErrTok, len |-> Len(s)]  \* update expression on a non-reference
  ELSE IF StartsWith(s, <<"*", "*">>) THEN [tok |-> Punct("**"), len |-> 2]
  ELSE IF Head(s) \in {"+", "-", "*", "/", "%", "(", ")"}
  THEN [tok |-> Punct(Head(s)), len |-> 1]
  ELSE [tok |-> ErrTok, len |-> Len(s)]

RECURSIVE Lex(_), LexRest(_, _)
\* the tokens of s; an "err" token ends the sequence where the text cannot
\* be part of any expression that evaluates without throwing
Lex(s) ==
  IF s = Empty THEN << >>
  ELSE IF Head(s) = " " THEN Lex(Tail(s))
  ELSE LexRest(s, FirstToken(s))

LexRest(s, first) == <<first.tok>> \o Lex(Drop(s, first.len))

StrMathAbs == <<"M", "a", "t", "h", ".", "a", "b", "s">>
MathFunctions == {<<"M", "a", "t", "h", ".", "s", "i", "n">>,
                  <<"M", "a", "t", "h", ".", "c", "o", "s">>,
                  <<"M", "a", "t", "h", ".", "t", "a", "n">>,
                  <<"M", "a", "t", "h", ".", "l", "o", "g", "1", "0">>,
                  <<"M", "a", "t", "h", ".", "l", "o", "g">>,
                  <<"M", "a", "t", "h", ".", "s", "q", "r", "t">>,
                  StrMathAbs}
MathConstants == {<<"M", "a", "t", "h", ".", "P", "I">>,
                  <<"M", "a", "t", "h", ".", "E">>}
KnownNames == {StrNaN, StrInfinity} \cup MathConstants \cup MathFunctions

\* the value of a known identifier (an unknown one throws a ReferenceError)
Lookup(name) ==
  CASE name = StrNaN -> NaN
    [] name = StrInfinity -> PosInf
    [] name \in MathFunctions -> Fn(name)
    [] OTHER -> Other

\* f(arg) for a Math function; without an argument the function is applied
\* to undefined and returns NaN
Apply(f, hasArg, arg) ==
  IF ~hasArg \/ arg.k = "nan" THEN NaN
  ELSE IF ~IsNumber(arg) THEN Other
  ELSE IF f.name = StrMathAbs
       THEN (IF IsNegative(arg) THEN Neg(arg) ELSE arg)
       ELSE Other

Binary(op, a, b) ==
  IF ~IsNumber(a) \/ ~IsNumber(b) THEN Other
  ELSE CASE op = "+" -> Add(a, b)
         [] op = "-" -> Sub(a, b)
         [] op = "*" -> Mul(a, b)
         [] op = "/" -> Div(a, b)
         [] OTHER -> Other

Unary(op, a) ==
  IF ~IsNumber(a) THEN Other ELSE IF op = "u-" THEN Neg(a) ELSE a

\* The parser is an operator-precedence machine over the tokens: a stack of
\* values, a stack of pending operators ("u+" and "u-" are the prefix
\* operators, "(" a grouping and "call(" an argument list) and whether an
\* operand is expected next.
Prec(op) ==
  CASE op \in {"+", "-"} -> 1
    [] op \in {"*", "/", "%"} -> 2
    [] op \in {"u+", "u-"} -> 3
    [] op = "**" -> 4
    [] OTHER -> 0

Machine(vals, ops, expect, bad) ==
  [vals |-> vals, ops |-> ops, expect |-> expect, bad |-> bad]
Failed == Machine(<< >>, << >>, FALSE, TRUE)
Last(q) == q[Len(q)]
Front(q) == SubSeq(q, 1, Len(q) - 1)

\* apply the operator on top of the operator stack
ReduceOnce(m) ==
  LET o == Last(m.ops) IN
  IF o \in {"u+", "u-"}
  THEN Machine(Front(m.vals) \o <<Unary(o, Last(m.vals))>>, Front(m.ops),
               m.expect, m.bad)
  ELSE Machine(Front(Front(m.vals)) \o
                 <<Binary(o, Last(Front(m.vals)), Last(m.vals))>>,
               Front(m.ops), m.expect, m.bad)

RECURSIVE Reduce(_, _)
\* apply the pending operators that bind at least as tightly as p
Reduce(m, p) ==
  IF m.ops # << >> /\ Prec(Last(m.ops)) > 0 /\ Prec(Last(m.ops)) >= p
  THEN Reduce(ReduceOnce(m), p)
  ELSE m

\* one token in operand position
StepOperand(m, tok) ==
  CASE tok.t = "num" -> Machine(m.vals \o <<tok.v>>, m.ops, FALSE, FALSE)
    [] tok.t = "id" ->
         IF tok.v \in KnownNames
         THEN Machine(m.vals \o <<Lookup(tok.v)>>, m.ops, FALSE, FALSE)
         ELSE Failed
    [] tok.t = "p" /\ tok.op \in {"+", "-"} ->
         Machine(m.vals, m.ops \o <<IF tok.op = "-" THEN "u-" ELSE "u+">>,
                 TRUE, FALSE)
    [] tok.t = "p" /\ tok.op = "(" ->
         Machine(m.vals, m.ops \o <<"(">>, TRUE, FALSE)
    [] tok.t = "p" /\ tok.op = ")" ->
         \* an empty argument list
         IF m.ops # << >> /\ Last(m.ops) = "call("
         THEN Machine(Front(m.vals) \o <<Apply(Last(m.vals), FALSE, NaN)>>,
                      Front(m.ops), FALSE, FALSE)
         ELSE Failed
    [] OTHER -> Failed

\* the closing parenthesis of a grouping or of an argument list, r being the
\* machine after the operators inside the parentheses were applied
CloseParen(r) ==
  IF r.ops = << >> THEN Failed
  ELSE IF Last(r.ops) = "("
       THEN Machine(r.vals, Front(r.ops), FALSE, FALSE)
       ELSE Machine(Front(Front(r.vals)) \o
                      <<Apply(Last(Front(r.vals)), TRUE, Last(r.vals))>>,
                    Front(r.ops), FALSE, FALSE)

PushOperator(r, op) == Machine(r.vals, r.ops \o <<op>>, TRUE, FALSE)

\* one token after an operand
StepOperator(m, tok) ==
  CASE tok.t = "p" /\ tok.op = "**" ->
         \* right-associative; its base may not be a unary expression
         IF m.ops # << >> /\ Last(m.ops) \in {"u+", "u-"} THEN Failed
         ELSE Machine(m.vals, m.ops \o <<"**">>, TRUE, FALSE)
    [] tok.t = "p" /\ tok.op \in {"+", "-", "*", "/", "%"} ->
         PushOperator(Reduce(m, Prec(tok.op)), tok.op)
    [] tok.t = "p" /\ tok.op = "(" ->
         \* a call: what is not a function cannot be called (TypeError)
         IF Last(m.vals).k = "fn"
         THEN Machine(m.vals, m.ops \o <<"call(">>, TRUE, FALSE)
         ELSE Failed
    [] tok.t = "p" /\ tok.op = ")" ->
         CloseParen(Reduce(m, 1))
    [] OTHER -> Failed

RECURSIVE Run(_, _, _)
Run(toks, i, m) ==
  IF m.bad \/ i > Len(toks) THEN m
  ELSE Run(toks, i + 1,
           IF m.expect THEN StepOperand(m, toks[i]) ELSE StepOperator(m, toks[i]))

Throw == [st |-> "throw", v |-> NaN]
Ok(v) == [st |-> "ok", v |-> v]

\* eval(s): [st |-> "ok", v |-> the value] or [st |-> "throw"]; a text that
\* is not a complete expression is a SyntaxError
\* the value left when the pending operators are applied at the end
Finish(r) == IF r.ops # << >> THEN Throw ELSE Ok(Last(r.vals))

EvalMachine(m) == IF m.bad \/ m.expect THEN Throw ELSE Finish(Reduce(m, 1))

EvalTokens(toks) ==
  IF \E j \in 1..Len(toks) : toks[j].t = "err" THEN Throw
  ELSE EvalMachine(Run(toks, 1, Machine(<< >>, << >>, TRUE, FALSE)))

Eval(s) == EvalTokens(Lex(s))

(***************************************************************************)
(* Helpers of the store and of utils.                                      *)
(***************************************************************************)
\* the characters written here by an ASCII name: the Greek letter pi of the
\* keypad and the infinity sign of formatNumber
PiChar == "pi"
InfinityChar == "oo"

StrMathPI == <<"M", "a", "t", "h", ".", "P", "I">>
StrMathE == <<"M", "a", "t", "h", ".", "E">>
StrDegFactor == <<"*", " ", "M", "a", "t", "h", ".", "P", "I", " ", "/", " ",
                  "1", "8", "0">>
StrSinOpen == <<"s", "i", "n", "(">>
StrCosOpen == <<"c", "o", "s", "(">>
StrTanOpen == <<"t", "a", "n", "(">>
StrLogOpen == <<"l", "o", "g", "(">>
StrLnOpen == <<"l", "n", "(">>
StrSqrtOpen == <<"s", "q", "r", "t", "(">>
StrAbsOpen == <<"a", "b", "s", "(">>

\* an operator list without the remainder sign
isOperatorNoPercent(value) ==
  value \in {<<"+">>, <<"-">>, <<"*">>, <<"/">>, <<"^">>}

isOperator(value) ==
  value \in {<<"+">>, <<"-">>, <<"*">>, <<"/">>, <<"^">>, <<"%">>}

\* the replacement text of a trigonometric call: the template literal
\* `Math.f(${mode === 'DEG' ? '* Math.PI / 180' : ''})`
TrigReplacement(f, mode_) ==
  <<"M", "a", "t", "h", ".">> \o f \o <<"(">> \o
  (IF mode_ = "DEG" THEN StrDegFactor ELSE Empty) \o <<")">>

\* a rewrite that applies the ln( rule before the log( rule
prepareInputLnFirst(input_, mode_) ==
  LET r1 == ReplaceAll(input_, <<"^">>, <<"*", "*">>)
      r2 == ReplaceAll(r1, <<PiChar>>, StrMathPI)
      r3 == ReplaceAll(r2, <<"e">>, StrMathE)
      r4 == ReplaceAll(r3, StrSinOpen, TrigReplacement(<<"s", "i", "n">>, mode_))
      r5 == ReplaceAll(r4, StrCosOpen, TrigReplacement(<<"c", "o", "s">>, mode_))
      r6 == ReplaceAll(r5, StrTanOpen, TrigReplacement(<<"t", "a", "n">>, mode_))
      r7 == ReplaceAll(r6, StrLnOpen, <<"M", "a", "t", "h", ".", "l", "o", "g", "(">>)
      r8 == ReplaceAll(r7, StrLogOpen,
                       <<"M", "a", "t", "h", ".", "l", "o", "g", "1", "0", "(">>)
      r9 == ReplaceAll(r8, StrSqrtOpen,
                       <<"M", "a", "t", "h", ".", "s", "q", "r", "t", "(">>)
  IN ReplaceAll(r9, StrAbsOpen, <<"M", "a", "t", "h", ".", "a", "b", "s", "(">>)

prepareInputForCalculation(input_, mode_) ==
  LET r1 == ReplaceAll(input_, <<"^">>, <<"*", "*">>)
      r2 == ReplaceAll(r1, <<PiChar>>, StrMathPI)
      r3 == ReplaceAll(r2, <<"e">>, StrMathE)
      r4 == ReplaceAll(r3, StrSinOpen, TrigReplacement(<<"s", "i", "n">>, mode_))
      r5 == ReplaceAll(r4, StrCosOpen, TrigReplacement(<<"c", "o", "s">>, mode_))
      r6 == ReplaceAll(r5, StrTanOpen, TrigReplacement(<<"t", "a", "n">>, mode_))
      r7 == ReplaceAll(r6, StrLogOpen,
                       <<"M", "a", "t", "h", ".", "l", "o", "g", "1", "0", "(">>)
      r8 == ReplaceAll(r7, StrLnOpen, <<"M", "a", "t", "h", ".", "l", "o", "g", "(">>)
      r9 == ReplaceAll(r8, StrSqrtOpen,
                       <<"M", "a", "t", "h", ".", "s", "q", "r", "t", "(">>)
  IN ReplaceAll(r9, StrAbsOpen, <<"M", "a", "t", "h", ".", "a", "b", "s", "(">>)

\* an annotation with its two sides exchanged
generateLatexSwapped(input_, result_) == result_ \o <<" ", "=", " ">> \o input_

generateLatex(input_, result_) == input_ \o <<" ", "=", " ">> \o result_

\* a value passed to formatNumber is a string or a number
StringValue(s) == [type |-> "string", s |-> s]
NumberValue(v) == [type |-> "number", v |-> v]

\* Number.prototype.toString
NumberToString(v) == DecimalToString(v)

\* a decimal digit string plus one in its last place
RECURSIVE Increment(_)
Increment(ds) ==
  IF ds = Empty THEN <<"1">>
  ELSE IF ds[Len(ds)] = "9" THEN Increment(Take(ds, Len(ds) - 1)) \o <<"0">>
  ELSE Take(ds, Len(ds) - 1) \o <<DigitChar(DigitVal(ds[Len(ds)]) + 1)>>

RECURSIVE Zeros(_)
Zeros(k) == IF k <= 0 THEN Empty ELSE <<"0">> \o Zeros(k - 1)

RECURSIVE LeadingZeros(_)
LeadingZeros(ds) ==
  IF ds # Empty /\ Head(ds) = "0" THEN 1 + LeadingZeros(Tail(ds)) ELSE 0

\* the value n/d > 0 as p significant digits ds and an exponent e, that is
\* ds[1].ds[2]...ds[p] x 10^e, rounded to nearest with ties upwards
SigDigits(n, d, p) ==
  LET ip == IF n \div d = 0 THEN Empty ELSE NatToStr(n \div d)
      fp == FracDigits(n % d, d, p + 1 - Len(ip), ip = Empty)
      lz == IF ip = Empty THEN LeadingZeros(fp) ELSE 0
      all == ip \o Drop(fp, lz)
      long == Take(all \o Zeros(p + 1 - Len(all)), p + 1)
      e == IF ip = Empty THEN 0 - (lz + 1) ELSE Len(ip) - 1
      kept == Take(long, p)
      up == IF DigitVal(long[p + 1]) >= 5 THEN Increment(kept) ELSE kept
  IN IF Len(up) > p THEN [ds |-> Take(up, p), e |-> e + 1]
     ELSE [ds |-> up, e |-> e]

\* d.ddd e+x
Exponential(ds, e) ==
  <<ds[1]>> \o (IF Len(ds) > 1 THEN <<".">> \o Tail(ds) ELSE Empty) \o
  <<"e", IF e < 0 THEN "-" ELSE "+">> \o NatToStr(Abs(e))

\* Number.prototype.toExponential(fractionDigits) of a finite value
toExponential(v, fractionDigits) ==
  IF IsZero(v) THEN Exponential(Zeros(fractionDigits + 1), 0)
  ELSE LET sd == SigDigits(Abs(NumOf(v)), DenOf(v), fractionDigits + 1)
       IN (IF IsNegative(v) THEN <<"-">> ELSE Empty) \o Exponential(sd.ds, sd.e)

\* Number.prototype.toPrecision(p) of a finite value
toPrecision(v, p) ==
  IF IsZero(v)
  THEN <<"0">> \o (IF p > 1 THEN <<".">> \o Zeros(p - 1) ELSE Empty)
  ELSE LET sd == SigDigits(Abs(NumOf(v)), DenOf(v), p)
           body == IF sd.e < 0 - 6 \/ sd.e >= p THEN Exponential(sd.ds, sd.e)
                   ELSE IF sd.e = p - 1 THEN sd.ds
                   ELSE IF sd.e >= 0
                        THEN Take(sd.ds, sd.e + 1) \o <<".">> \o
                             Drop(sd.ds, sd.e + 1)
                   ELSE <<"0", ".">> \o Zeros(0 - (sd.e + 1)) \o sd.ds
       IN (IF IsNegative(v) THEN <<"-">> ELSE Empty) \o body

\* s.replace(/\.?0+$/, '')
StripTrailingZeros(s) ==
  LET t == StripZeros(s)
  IN IF t = s THEN s
     ELSE IF t # Empty /\ t[Len(t)] = "." THEN Take(t, Len(t) - 1)
     ELSE t

\* Math.abs(value) > 1e10
AboveTenBillion(v) ==
  LET ip == Abs(NumOf(v)) \div DenOf(v)
  IN \/ ip \div 100000 > 100000
     \/ /\ ip \div 100000 = 100000
        /\ (ip % 100000 > 0 \/ Abs(NumOf(v)) % DenOf(v) > 0)

\* Math.abs(value) < 1e-7 && value !== 0
BelowTenMillionth(v) ==
  /\ ~IsZero(v)
  /\ \/ DenOf(v) \div 10000000 > Abs(NumOf(v))
     \/ /\ DenOf(v) \div 10000000 = Abs(NumOf(v))
        /\ DenOf(v) % 10000000 > 0

\* a formatNumber that applies the length rule before the finiteness check
formatNumberLengthFirst(value) ==
  IF value.type = "string" THEN value.s
  ELSE LET str == NumberToString(value.v)
       IN IF (IsFiniteNum(value.v) /\ DenOf(value.v) = 1) \/ Len(str) < 15
          THEN str
          ELSE IF ~IsFiniteNum(value.v)
               THEN CASE value.v.k = "pinf" -> <<InfinityChar>>
                      [] value.v.k = "ninf" -> <<"-", InfinityChar>>
                      [] OTHER -> <<"E", "r", "r", "o", "r">>
          ELSE IF AboveTenBillion(value.v) \/ BelowTenMillionth(value.v)
               THEN toExponential(value.v, 10)
          ELSE StripTrailingZeros(toPrecision(value.v, 10))

formatNumber(value) ==
  IF value.type = "string" THEN value.s
  ELSE IF ~IsFiniteNum(value.v)
       THEN CASE value.v.k = "pinf" -> <<InfinityChar>>
              [] value.v.k = "ninf" -> <<"-", InfinityChar>>
              [] OTHER -> <<"E", "r", "r", "o", "r">>
  ELSE LET str == NumberToString(value.v)
       IN IF DenOf(value.v) = 1 \/ Len(str) < 15 THEN str
          ELSE IF AboveTenBillion(value.v) \/ BelowTenMillionth(value.v)
               THEN toExponential(value.v, 10)
          ELSE StripTrailingZeros(toPrecision(value.v, 10))

\* the outcome of the try block of calculate: the formatted result, or a
\* throw of eval or of the Decimal constructor (which rejects a function)
Outcome(r) ==
  IF r.st = "ok" /\ r.v.k # "fn"
  THEN [ok |-> TRUE, modelled |-> r.v.k # "other",
        s |-> IF r.v.k = "other" THEN Empty
              ELSE formatNumber(StringValue(DecimalToString(r.v)))]
  ELSE [ok |-> FALSE, modelled |-> TRUE, s |-> Empty]

TryBlock(input_, mode_) == Outcome(Eval(prepareInputForCalculation(input_, mode_)))

\* the outcomes of the inputs that the digit, minus and parenthesis keys can
\* spell within the explored length, computed once
SpelledChars == {"1", "0", "-", "("}
SpelledInputs == UNION {[1..n -> SpelledChars] : n \in 1..MaxInputLen}
SpelledOutcomes == {<<i, TryBlock(i, "RAD")>> : i \in SpelledInputs}

\* no explored key of SpelledChars is rewritten by mode, so the outcome of a
\* spelled input is the same in every mode
Evaluate(input_, mode_) ==
  IF input_ \in SpelledInputs
  THEN (CHOOSE p \in SpelledOutcomes : p[1] = input_)[2]
  ELSE TryBlock(input_, mode_)

HistoryEntry(input_, result_) ==
  [input |-> input_, result |-> result_, latex |-> generateLatex(input_, result_)]

\* a prepend that forgets the slice
PrependUnbounded(entry, history_) == <<entry>> \o history_

\* [entry, ...history].slice(0, 100)
Prepend(entry, history_) ==
  LET h == <<entry>> \o history_
  IN SubSeq(h, 1, IF Len(h) < HistoryCap THEN Len(h) ELSE HistoryCap)

NoMemory == [k \in {} |-> Empty]
MemorySet(memory_, key, value) ==
  [k \in DOMAIN memory_ \cup {key} |-> IF k = key THEN value ELSE memory_[k]]
MemoryGet(memory_, key) ==
  IF key \in DOMAIN memory_ THEN memory_[key] ELSE Empty

\* the last operation: its name, its argument and whether a result was
\* present when it started
\* Where lastOp.tracked is set, lastOp also follows a run of appends started
\* with no result present and the backspaces after it: depth is the number
\* of appends of the run not yet matched by a backspace, origin the input
\* before the first append of the run.
RunDepth(name) ==
  IF ~lastOp.tracked THEN 0
  ELSE IF name = "appendToInput"
       THEN IF lastOp.name = "appendToInput" /\ lastOp.depth > 0
            THEN lastOp.depth + 1
            ELSE IF result = Empty THEN 1 ELSE 0
  ELSE IF name = "backspace" /\ lastOp.depth > 0 THEN lastOp.depth - 1
  ELSE 0

RunOrigin(name) ==
  IF RunDepth(name) = 0 THEN Empty
  ELSE IF lastOp.depth > 0 THEN lastOp.origin
  ELSE input

Op(name, arg) ==
  [name |-> name, arg |-> arg, hadResult |-> result # Empty,
   tracked |-> lastOp.tracked, depth |-> RunDepth(name),
   origin |-> RunOrigin(name)]

\* the record of an operation where no run is followed
Untracked(name, arg, hadResult) ==
  [name |-> name, arg |-> arg, hadResult |-> hadResult,
   tracked |-> FALSE, depth |-> 0, origin |-> Empty]

(***************************************************************************)
(* The store: initial state and actions.                                   *)
(***************************************************************************)
Init ==
  /\ display = <<"0">>
  /\ input = Empty
  /\ result = Empty
  /\ latex = Empty
  /\ memory = NoMemory
  /\ history = << >>
  /\ mode = "DEG"
  /\ isShiftActive = FALSE
  /\ isInverseActive = FALSE
  /\ isHyperbolicActive = FALSE
  /\ precision = DefaultPrecision
  /\ error = Null
  /\ lastOp = Untracked("create", Empty, FALSE)
  /\ InitComponents

Modifiers == <<isShiftActive, isInverseActive, isHyperbolicActive, precision>>

\* an append that never looks at the result
appendToInputAppends(value) ==
  /\ input' = input \o value
  /\ display' = input \o value
  /\ error' = Null
  /\ lastOp' = Op("appendToInput", value)
  /\ UNCHANGED <<result, latex, memory, history, mode, Modifiers, Components>>

appendToInput(value) ==
  /\ IF result # Empty /\ IsNumericString(value) /\ ~isOperator(value)
     THEN /\ input' = value
          /\ display' = value
          /\ result' = Empty
          /\ UNCHANGED error
     ELSE IF result # Empty /\ isOperator(value)
     THEN /\ input' = result \o value
          /\ display' = result \o value
          /\ result' = Empty
          /\ UNCHANGED error
     ELSE /\ input' = input \o value
          /\ display' = input \o value
          /\ error' = Null
          /\ UNCHANGED result
  /\ lastOp' = Op("appendToInput", value)
  /\ UNCHANGED <<latex, memory, history, mode, Modifiers, Components>>

\* a C key that leaves the display as it was
clearInputKeepsDisplay ==
  /\ input' = Empty
  /\ error' = Null
  /\ lastOp' = Op("clearInput", Empty)
  /\ UNCHANGED <<display, result, latex, memory, history, mode, Modifiers, Components>>

clearInput ==
  /\ input' = Empty
  /\ display' = <<"0">>
  /\ error' = Null
  /\ lastOp' = Op("clearInput", Empty)
  /\ UNCHANGED <<result, latex, memory, history, mode, Modifiers, Components>>

\* an AC key that also empties the history
clearAllClearsHistory ==
  /\ input' = Empty
  /\ display' = <<"0">>
  /\ result' = Empty
  /\ latex' = Empty
  /\ error' = Null
  /\ history' = << >>
  /\ lastOp' = Op("clearAll", Empty)
  /\ UNCHANGED <<memory, mode, Modifiers, Components>>

\* an AC key that leaves the annotation of the last calculation
clearAllKeepsLatex ==
  /\ input' = Empty
  /\ display' = <<"0">>
  /\ result' = Empty
  /\ error' = Null
  /\ lastOp' = Op("clearAll", Empty)
  /\ UNCHANGED <<latex, memory, history, mode, Modifiers, Components>>

clearAll ==
  /\ input' = Empty
  /\ display' = <<"0">>
  /\ result' = Empty
  /\ latex' = Empty
  /\ error' = Null
  /\ lastOp' = Op("clearAll", Empty)
  /\ UNCHANGED <<memory, history, mode, Modifiers, Components>>

\* a catch block that also writes the message to the display
CalculatedShowsError(r) ==
  /\ r.modelled
  /\ IF r.ok
     THEN /\ result' = r.s
          /\ display' = r.s
          /\ latex' = generateLatex(input, r.s)
          /\ history' = Prepend(HistoryEntry(input, r.s), history)
          /\ error' = Null
     ELSE /\ error' = ErrorMessage
          /\ display' = <<"E", "r", "r", "o", "r">>
          /\ UNCHANGED <<result, latex, history>>

\* the state change of calculate on a non-empty input, r being the outcome
\* of the try block; an outcome this model does not compute is not explored
Calculated(r) ==
  /\ r.modelled
  /\ IF r.ok
     THEN /\ result' = r.s
          /\ display' = r.s
          /\ latex' = generateLatex(input, r.s)
          /\ history' = Prepend(HistoryEntry(input, r.s), history)
          /\ error' = Null
     ELSE /\ error' = ErrorMessage
          /\ UNCHANGED <<result, display, latex, history>>

\* a calculate that returns early while an error is shown
calculateLatched ==
  /\ IF input = Empty \/ error # Null
     THEN UNCHANGED <<result, display, latex, history, error>>
     ELSE \E r \in {Evaluate(input, mode)} : Calculated(r)
  /\ lastOp' = Op("calculate", Empty)
  /\ UNCHANGED <<input, memory, mode, Modifiers, Components>>

\* a calculate that reports an empty input as an error
calculateEmptyFails ==
  /\ IF input = Empty
     THEN /\ error' = ErrorMessage
          /\ UNCHANGED <<result, display, latex, history>>
     ELSE \E r \in {Evaluate(input, mode)} : Calculated(r)
  /\ lastOp' = Op("calculate", Empty)
  /\ UNCHANGED <<input, memory, mode, Modifiers, Components>>

\* a calculate that cuts the result to precision characters
calculateToPrecision ==
  /\ IF input = Empty
     THEN UNCHANGED <<result, display, latex, history, error>>
     ELSE \E r \in {Evaluate(input, mode)} :
            Calculated(IF r.modelled /\ r.ok /\ Len(r.s) > precision
                       THEN [r EXCEPT !.s = Take(@, precision)]
                       ELSE r)
  /\ lastOp' = Op("calculate", Empty)
  /\ UNCHANGED <<input, memory, mode, Modifiers, Components>>

calculate ==
  /\ IF input = Empty
     THEN UNCHANGED <<result, display, latex, history, error>>
     ELSE \E r \in {Evaluate(input, mode)} : Calculated(r)
  /\ lastOp' = Op("calculate", Empty)
  /\ UNCHANGED <<input, memory, mode, Modifiers, Components>>

setMode(m) ==
  /\ mode' = m
  /\ lastOp' = Op("setMode", Empty)
  /\ UNCHANGED <<display, input, result, latex, memory, history, error,
                 Modifiers, Components>>

\* a precedence that takes the display before the result
ValueToStoreDisplayFirst(value) ==
  IF value # Empty THEN value
  ELSE IF display # Empty THEN display
  ELSE IF result # Empty THEN result
  ELSE input

\* value || result || display || input
ValueToStore(value) ==
  IF value # Empty THEN value
  ELSE IF result # Empty THEN result
  ELSE IF display # Empty THEN display
  ELSE input

\* a sum of the two strings instead of the two numbers
SumConcat(stored, valueToStore) == stored \o valueToStore

\* (parseFloat(memory[key]) + parseFloat(valueToStore)).toString()
Sum(stored, valueToStore) ==
  NumberToString(Add(parseFloat(stored), parseFloat(valueToStore)))

\* the sums of a stored natural number and a spelled value, computed once
StoredValues == {NatToStr(n) : n \in 0..MaxMemValue}
SpelledSums ==
  {<<a, b, Sum(a, b)>> : a \in StoredValues, b \in SpelledInputs}

Accumulate(stored, valueToStore) ==
  IF stored \in StoredValues /\ valueToStore \in SpelledInputs
  THEN (CHOOSE p \in SpelledSums :
          p[1] = stored /\ p[2] = valueToStore)[3]
  ELSE Sum(stored, valueToStore)

\* value = Empty stands for a call without the optional argument
storeInMemory(key, value) ==
  LET valueToStore == ValueToStore(value)
  IN /\ IF valueToStore # Empty
        THEN IF value = Empty /\ MemoryGet(memory, key) # Empty
             THEN memory' = MemorySet(memory, key,
                                     Accumulate(memory[key], valueToStore))
             ELSE memory' = MemorySet(memory, key, valueToStore)
        ELSE UNCHANGED memory
     /\ lastOp' = Op("storeInMemory", value)
     /\ UNCHANGED <<display, input, result, latex, history, mode, error,
                    Modifiers, Components>>

\* a recall that always appends to the input
recallFromMemoryAppends(key) ==
  LET value == MemoryGet(memory, key)
  IN /\ IF value # Empty
        THEN /\ input' = input \o value
             /\ display' = input \o value
             /\ UNCHANGED result
        ELSE UNCHANGED <<input, display, result>>
     /\ lastOp' = Op("recallFromMemory", Empty)
     /\ UNCHANGED <<latex, memory, history, mode, error, Modifiers, Components>>

\* a recall that reports a slot without a value as an error
recallFromMemoryMissIsError(key) ==
  LET value == MemoryGet(memory, key)
  IN /\ IF value # Empty
        THEN /\ IF result # Empty
                THEN /\ input' = value
                     /\ display' = value
                     /\ result' = Empty
                ELSE /\ input' = input \o value
                     /\ display' = input \o value
                     /\ UNCHANGED result
             /\ UNCHANGED error
        ELSE /\ error' = ErrorMessage
             /\ UNCHANGED <<input, display, result>>
     /\ lastOp' = Op("recallFromMemory", Empty)
     /\ UNCHANGED <<latex, memory, history, mode, Modifiers, Components>>

recallFromMemory(key) ==
  LET value == MemoryGet(memory, key)
  IN /\ IF value # Empty
        THEN IF result # Empty
             THEN /\ input' = value
                  /\ display' = value
                  /\ result' = Empty
             ELSE /\ input' = input \o value
                  /\ display' = input \o value
                  /\ UNCHANGED result
        ELSE UNCHANGED <<input, display, result>>
     /\ lastOp' = Op("recallFromMemory", Empty)
     /\ UNCHANGED <<latex, memory, history, mode, error, Modifiers, Components>>

\* the M- button: the difference of the stored value (or 0) and the number
\* read from the display is stored as an explicit value
memoryMinus ==
  \E currentValue \in {parseFloat(display)} :
    IF currentValue # NaN
    THEN storeInMemory("M",
           NumberToString(Sub(parseFloat(IF MemoryGet(memory, "M") # Empty
                                         THEN memory["M"] ELSE <<"0">>),
                              currentValue)))
    ELSE UNCHANGED vars

\* a clear that empties the bank whatever the slot named
clearMemoryAll(key) ==
  /\ memory' = NoMemory
  /\ lastOp' = Op("clearMemory", IF key # "" THEN <<key>> ELSE Empty)
  /\ UNCHANGED <<display, input, result, latex, history, mode, error,
                 Modifiers, Components>>

\* key = "" stands for a call without the optional argument
clearMemory(key) ==
  /\ IF key # ""
     THEN memory' = [k \in DOMAIN memory \ {key} |-> memory[k]]
     ELSE memory' = NoMemory
  /\ lastOp' = Op("clearMemory", IF key # "" THEN <<key>> ELSE Empty)
  /\ UNCHANGED <<display, input, result, latex, history, mode, error,
                 Modifiers, Components>>

clearHistory ==
  /\ history' = << >>
  /\ lastOp' = Op("clearHistory", Empty)
  /\ UNCHANGED <<display, input, result, latex, memory, mode, error,
                 Modifiers, Components>>

\* a backspace that keeps the result of the last calculation
backspaceKeepsResult ==
  /\ IF input = Empty
     THEN UNCHANGED <<input, display, result, error>>
     ELSE /\ input' = Take(input, Len(input) - 1)
          /\ display' = IF Len(input) = 1 THEN <<"0">>
                        ELSE Take(input, Len(input) - 1)
          /\ error' = Null
          /\ UNCHANGED result
  /\ lastOp' = Op("backspace", Empty)
  /\ UNCHANGED <<latex, memory, history, mode, Modifiers, Components>>

\* a backspace that leaves the display as it was
backspaceStale ==
  /\ IF input = Empty
     THEN UNCHANGED <<input, result, error>>
     ELSE /\ input' = Take(input, Len(input) - 1)
          /\ result' = Empty
          /\ error' = Null
  /\ lastOp' = Op("backspace", Empty)
  /\ UNCHANGED <<display, latex, memory, history, mode, Modifiers, Components>>

\* a backspace that shows the shortened input even when nothing is left
backspaceShowsInput ==
  /\ IF input = Empty
     THEN UNCHANGED <<input, display, result, error>>
     ELSE /\ input' = Take(input, Len(input) - 1)
          /\ display' = Take(input, Len(input) - 1)
          /\ result' = Empty
          /\ error' = Null
  /\ lastOp' = Op("backspace", Empty)
  /\ UNCHANGED <<latex, memory, history, mode, Modifiers, Components>>

backspace ==
  /\ IF input = Empty
     THEN UNCHANGED <<input, display, result, error>>
     ELSE /\ input' = Take(input, Len(input) - 1)
          /\ display' = IF Len(input) = 1 THEN <<"0">>
                        ELSE Take(input, Len(input) - 1)
          /\ result' = Empty
          /\ error' = Null
  /\ lastOp' = Op("backspace", Empty)
  /\ UNCHANGED <<latex, memory, history, mode, Modifiers, Components>>

(***************************************************************************)
(* The keypad: the tokens and slots the exploration presses.               *)
(***************************************************************************)
\* the memory values the exploration keeps: the decimal form of a natural
\* number within the cap
NumberWithin(value, v) ==
  v.k = "num" /\ v.d = 1 /\ v.n >= 0 /\ v.n <= MaxMemValue /\ value = NatToStr(v.n)

MemoryWithin(memory_) ==
  \A k \in DOMAIN memory_ : NumberWithin(memory_[k], parseFloat(memory_[k]))

Tokens == {<<"1">>, <<"0">>, <<"-">>, <<"(">>}
Slots == {"M"}

Next ==
  \/ \E v \in Tokens : appendToInput(v) /\ Len(input') <= MaxInputLen
  \/ clearInput
  \/ clearAll
  \/ calculate /\ Len(history') <= MaxHistory
  \/ \E k \in Slots : /\ Len(ValueToStore(Empty)) <= MaxInputLen
                       /\ storeInMemory(k, Empty)
                       /\ MemoryWithin(memory')
  \/ \E k \in Slots : recallFromMemory(k) /\ Len(input') <= MaxInputLen
  \/ \E k \in Slots : clearMemory(k)
  \/ clearHistory
  \/ backspace

Spec == Init /\ [][Next]_vars

(***************************************************************************)
(* The division keys: explored to inputs long enough for a quotient.       *)
(***************************************************************************)
DivTokens == {<<"1">>, <<"0">>, <<"/">>}

NextDiv ==
  \/ \E v \in DivTokens : appendToInput(v) /\ Len(input') <= MaxDivLen
  \/ calculate /\ Len(history') <= MaxHistory
  \/ clearAll
  \/ clearHistory
  \/ backspace

SpecDiv == Init /\ [][NextDiv]_vars

(***************************************************************************)
(* The trigonometry keys, in every angle mode.                             *)
(***************************************************************************)
TrigTokens == {StrSinOpen, <<"1">>, <<")">>}

NextTrig ==
  \/ \E v \in TrigTokens : appendToInput(v) /\ Len(input') <= MaxTrigLen
  \/ calculate /\ Len(history') <= MaxHistory
  \/ \E m \in Modes : setMode(m)
  \/ clearAll
  \/ clearHistory
  \/ backspace

SpecTrig == Init /\ [][NextTrig]_vars

(***************************************************************************)
(* The operator keys, pressed after a digit and after a result.            *)
(***************************************************************************)
OperatorTokens == {<<"+">>, <<"-">>, <<"*">>, <<"/">>, <<"^">>, <<"%">>}
OpsTokens == {<<"1">>} \cup OperatorTokens

NextOps ==
  \/ \E v \in OpsTokens : appendToInput(v) /\ Len(input') <= MaxInputLen
  \/ calculate /\ Len(history') <= MaxHistory
  \/ clearInput
  \/ clearHistory

SpecOps == Init /\ [][NextOps]_vars

(***************************************************************************)
(* The memory buttons, with the digits 5 and 3 and integer memory values.  *)
(***************************************************************************)
StoredWithin(v) ==
  v.k = "num" /\ v.d = 1 /\ v.n <= MaxStored /\ 0 - v.n <= MaxStored

MemTokens == {<<"5">>, <<"3">>}

NextMem ==
  \/ \E v \in MemTokens : appendToInput(v) /\ Len(input') <= MaxInputLen
  \/ calculate /\ Len(history') <= MaxHistory
  \/ clearInput
  \/ clearHistory
  \/ \E k \in Slots :
       /\ storeInMemory(k, Empty)
       /\ \A j \in DOMAIN memory' : StoredWithin(parseFloat(memory'[j]))
  \/ /\ memoryMinus
     /\ \A j \in DOMAIN memory' : StoredWithin(parseFloat(memory'[j]))
  \/ \E k \in Slots : clearMemory(k)

SpecMem == Init /\ [][NextMem]_vars

(***************************************************************************)
(* Appends undone by backspaces: the digit, parenthesis and sine keys, with *)
(* the run of appends and backspaces in progress followed in lastOp.       *)
(***************************************************************************)
InitUndo ==
  /\ display = <<"0">>
  /\ input = Empty
  /\ result = Empty
  /\ latex = Empty
  /\ memory = NoMemory
  /\ history = << >>
  /\ mode = "DEG"
  /\ isShiftActive = FALSE
  /\ isInverseActive = FALSE
  /\ isHyperbolicActive = FALSE
  /\ precision = DefaultPrecision
  /\ error = Null
  /\ lastOp = [name |-> "create", arg |-> Empty, hadResult |-> FALSE,
               tracked |-> TRUE, depth |-> 0, origin |-> Empty]
  /\ InitComponents

UndoTokens == {<<"1">>, <<"(">>, StrSinOpen}

NextUndo ==
  \/ \E v \in UndoTokens : appendToInput(v) /\ Len(input') <= MaxTrigLen
  \/ backspace
  \/ calculate /\ Len(history') <= MaxHistory
  \/ clearInput
  \/ clearHistory

SpecUndo == InitUndo /\ [][NextUndo]_vars

(***************************************************************************)
(* A history one entry below its capacity: the state after HistoryCap - 1  *)
(* calculations on the inputs 2, 3 and 23 followed by clearAll.  The keys  *)
(* explored from there are other digits, so that the entries added are     *)
(* told from the ones the history started with.                            *)
(***************************************************************************)
SeedInputs == <<(<<"2">>), (<<"3">>), (<<"2", "3">>)>>
SeedInputSet == {SeedInputs[j] : j \in 1..Len(SeedInputs)}
SeedInput(i) == SeedInputs[(i % Len(SeedInputs)) + 1]
SeedEntry(i) == HistoryEntry(SeedInput(i), Evaluate(SeedInput(i), "DEG").s)
SeedHistory == [i \in 1..(HistoryCap - 1) |-> SeedEntry(i)]

\* the entries of a history that come from the keys explored
Fresh(history_) ==
  Cardinality({i \in 1..Len(history_) : history_[i].input \notin SeedInputSet})

InitFull ==
  /\ display = <<"0">>
  /\ input = Empty
  /\ result = Empty
  /\ latex = Empty
  /\ memory = NoMemory
  /\ history = SeedHistory
  /\ mode = "DEG"
  /\ isShiftActive = FALSE
  /\ isInverseActive = FALSE
  /\ isHyperbolicActive = FALSE
  /\ precision = DefaultPrecision
  /\ error = Null
  /\ lastOp = Untracked("clearAll", Empty, TRUE)
  /\ InitComponents

FullTokens == {<<"1">>, <<"0">>, <<"(">>}

NextFull ==
  \/ \E v \in FullTokens : appendToInput(v) /\ Len(input') <= MaxInputLen
  \/ calculate /\ Fresh(history') <= MaxFresh
  \/ clearInput
  \/ backspace

SpecFull == InitFull /\ [][NextFull]_vars

(***************************************************************************)
(* The rewrite on its own: an input spelled by the keys of the scientific  *)
(* keypad (abs( has a rule and no key) is rewritten in each mode.          *)
(***************************************************************************)
KeypadTokens ==
  {<<"1">>, <<".">>, <<"+">>, <<"^">>, <<"(">>, <<")">>, <<PiChar>>, <<"e">>,
   StrSinOpen, StrCosOpen, StrTanOpen, StrLogOpen, StrLnOpen, StrSqrtOpen,
   StrAbsOpen}

TokenSeqs == UNION {[1..n -> KeypadTokens] : n \in 1..MaxTokens}

RECURSIVE Concat(_)
Concat(ss) == IF ss = << >> THEN << >> ELSE Head(ss) \o Concat(Tail(ss))

InitRewrite ==
  /\ input \in {Concat(ts) : ts \in TokenSeqs}
  /\ display = input
  /\ result = Empty
  /\ latex = Empty
  /\ memory = NoMemory
  /\ history = << >>
  /\ mode \in Modes
  /\ isShiftActive = FALSE
  /\ isInverseActive = FALSE
  /\ isHyperbolicActive = FALSE
  /\ precision = DefaultPrecision
  /\ error = Null
  /\ lastOp = Untracked("appendToInput", Empty, FALSE)
  /\ InitComponents

\* calculate, up to the rewrite of its input
sanitize ==
  /\ sanitizedInput' = prepareInputForCalculation(input, mode)
  /\ lastOp' = Op("prepareInputForCalculation", Empty)
  /\ UNCHANGED <<display, input, result, latex, memory, history, mode, error,
                 Modifiers, valueToFormat, formattedResult, Stats, Panels>>

NextRewrite ==
  \/ sanitize
  \/ \E m \in Modes : setMode(m)

SpecRewrite == InitRewrite /\ [][NextRewrite]_vars

(***************************************************************************)
(* formatNumber on its own, called with a number: the non-finite values,   *)
(* the zeros, and quotients with short and with long decimal expansions,   *)
(* of ordinary size, of six integer digits and below one ten-millionth.    *)
(***************************************************************************)
NumericValues ==
  {NaN, PosInf, NegInf, NegZero} \cup
  {Rat(sign * k * scale, d) :
     sign \in {1, 0 - 1}, k \in 0..MaxNumerator, scale \in {1, 1000000},
     d \in {1, 2, 3, 7, 30000000}}

InitFormat ==
  /\ display = <<"0">>
  /\ input = Empty
  /\ result = Empty
  /\ latex = Empty
  /\ memory = NoMemory
  /\ history = << >>
  /\ mode = "DEG"
  /\ isShiftActive = FALSE
  /\ isInverseActive = FALSE
  /\ isHyperbolicActive = FALSE
  /\ precision = DefaultPrecision
  /\ error = Null
  /\ lastOp = Untracked("create", Empty, FALSE)
  /\ sanitizedInput = Empty
  /\ valueToFormat \in {NumberValue(v) : v \in NumericValues}
  /\ formattedResult = Empty
  /\ stats = StatsIdle
  /\ requests = << >>
  /\ units = UnitsIdle
  /\ graph = GraphIdle
  /\ matrix = MatrixIdle
  /\ cas = CasIdle

format ==
  /\ formattedResult' = formatNumber(valueToFormat)
  /\ lastOp' = Op("formatNumber", Empty)
  /\ UNCHANGED <<display, input, result, latex, memory, history, mode, error,
                 Modifiers, sanitizedInput, valueToFormat, Stats, Panels>>

NextFormat == format

SpecFormat == InitFormat /\ [][NextFormat]_vars

(***************************************************************************)
(* A bank of two slots: values are stored in either, one slot is cleared   *)
(* or the whole bank.                                                      *)
(***************************************************************************)
BankSlots == {"M", "A"}

NextBank ==
  \/ \E v \in MemTokens : appendToInput(v) /\ Len(input') <= MaxInputLen
  \/ calculate /\ Len(history') <= MaxHistory
  \/ \E k \in BankSlots : /\ storeInMemory(k, Empty)
                           /\ \A j \in DOMAIN memory' :
                                StoredWithin(parseFloat(memory'[j]))
  \/ \E k \in BankSlots \cup {""} : clearMemory(k)

SpecBank == Init /\ [][NextBank]_vars

(***************************************************************************)
(* The operations of the store on a history one entry short of its        *)
(* capacity: entries are prepended, evicted at the capacity and cleared.   *)
(* Recalling is left to Spec: a recalled value brings its digits into the  *)
(* input and with them many more histories.                                *)
(***************************************************************************)
NextHist ==
  \/ \E v \in {<<"1">>, <<"(">>} : appendToInput(v) /\ Len(input') <= MaxInputLen
  \/ calculate /\ Fresh(history') <= MaxFresh
  \/ clearInput
  \/ clearAll
  \/ \E k \in Slots : /\ Len(ValueToStore(Empty)) <= MaxInputLen
                       /\ storeInMemory(k, Empty)
                       /\ MemoryWithin(memory')
  \/ \E k \in Slots : clearMemory(k)
  \/ clearHistory
  \/ backspace

SpecHist == InitFull /\ [][NextHist]_vars

(***************************************************************************)
(* After a failed calculation: the state reached by 1, =, (, = (the second *)
(* calculation fails on the input "1(").                                   *)
(***************************************************************************)
PriorEntry == HistoryEntry(<<"1">>, <<"1">>)

InitRetry ==
  /\ display = <<"1", "(">>
  /\ input = <<"1", "(">>
  /\ result = <<"1">>
  /\ latex = generateLatex(<<"1">>, <<"1">>)
  /\ memory = NoMemory
  /\ history = <<PriorEntry>>
  /\ mode = "DEG"
  /\ isShiftActive = FALSE
  /\ isInverseActive = FALSE
  /\ isHyperbolicActive = FALSE
  /\ precision = DefaultPrecision
  /\ error = ErrorMessage
  /\ lastOp = Untracked("calculate", Empty, TRUE)
  /\ InitComponents

NextRetry ==
  \/ \E v \in Tokens : appendToInput(v) /\ Len(input') <= MaxInputLen
  \/ calculate /\ Len(history') <= MaxHistory + 1
  \/ clearInput
  \/ clearAll
  \/ \E k \in Slots : /\ Len(ValueToStore(Empty)) <= MaxInputLen
                       /\ storeInMemory(k, Empty)
                       /\ MemoryWithin(memory')
  \/ \E k \in Slots : recallFromMemory(k) /\ Len(input') <= MaxInputLen
  \/ backspace

SpecRetry == InitRetry /\ [][NextRetry]_vars

(***************************************************************************)
(* The statistics panel (StatsCalculator).  Its state is the record stats; *)
(* requests holds the POSTs that have been sent and not yet answered, in   *)
(* the order of sending.  A handler runs up to its await in one step and   *)
(* resumes, in a later step, when its request settles.  An image is named  *)
(* by the visualization it shows.                                          *)
(***************************************************************************)
Store == <<display, input, result, latex, memory, history, mode, error,
           Modifiers>>
Locals == <<sanitizedInput, valueToFormat, formattedResult>>

\* the values a payload field can hold
Undefined == [type |-> "undefined"]
ArrayValue(items) == [type |-> "array", items |-> items]

\* !s.trim()
IsBlank(s) == \A i \in 1..Len(s) : s[i] = " "

\* input.split(/[,\s\t\n]+/).map(trim).filter(val => val !== '')
RECURSIVE SplitData(_, _)
SplitData(s, piece) ==
  IF s = Empty THEN IF piece = Empty THEN << >> ELSE <<piece>>
  ELSE IF Head(s) \in {",", " "}
       THEN (IF piece = Empty THEN << >> ELSE <<piece>>) \o
            SplitData(Tail(s), Empty)
  ELSE SplitData(Tail(s), piece \o <<Head(s)>>)

parseDataInput(input_) ==
  IF IsBlank(input_) THEN << >>
  ELSE LET vals == SplitData(input_, Empty)
       IN SelectSeq([i \in 1..Len(vals) |-> parseFloat(vals[i])],
                    LAMBDA val : val # NaN)

\* (!field || field.trim() === ''): whether the field is rejected, or the
\* TypeError of calling trim on a value that has none
Validate(field) ==
  IF field = Undefined \/ field = StringValue(Empty) THEN "rejected"
  ELSE IF field.type # "string" THEN "TypeError"
  ELSE IF IsBlank(field.s) THEN "rejected"
  ELSE "passed"

RemoveAt(s, i) == SubSeq(s, 1, i - 1) \o SubSeq(s, i + 1, Len(s))

\* the messages of the catch blocks: err.response?.data?.detail ||
\* err.message || a default
RequestFailures == {"detail", "Network Error"}

handleVisualization(type) ==
  LET started == [stats EXCEPT !.loading = TRUE, !.error = "",
                               !.results = Null,
                               !.visualizationImage = Null,
                               !.visualizationType = type]
      payload == [data |-> ArrayValue(parseDataInput(stats.dataInput))]
  IN /\ ~IsBlank(stats.dataInput)
     /\ stats' = started
     /\ requests' = Append(requests,
                           [handler |-> "handleVisualization", type |-> type,
                            endpoint |-> <<"api", "stats", "visualization", type>>,
                            payload |-> payload])
     /\ lastOp' = Untracked("handleVisualization", Empty, FALSE)
     /\ UNCHANGED <<Store, Locals, Panels>>

\* the request of handleVisualization settles: the response carries an
\* image, or no image, or the request fails
visualizationSettles(i) ==
  /\ i \in 1..Len(requests)
  /\ requests[i].handler = "handleVisualization"
  /\ \/ stats' = [stats EXCEPT !.visualizationImage = requests[i].type,
                                !.loading = FALSE]
     \/ \E message \in RequestFailures \cup {"No visualization data returned"} :
          stats' = [stats EXCEPT !.error = message,
                                 !.visualizationImage = Null,
                                 !.loading = FALSE]
  /\ requests' = RemoveAt(requests, i)
  /\ lastOp' = Untracked("visualizationSettles", Empty, FALSE)
  /\ UNCHANGED <<Store, Locals, Panels>>

\* the payload handleCalculate builds for the statType selected
CalculatePayload ==
  CASE stats.statType \in {"descriptive", "regression"} ->
         [data |-> StringValue(stats.dataInput), sample |-> Undefined,
          sample2 |-> Undefined]
    [] stats.statType = "hypothesis" ->
         [data |-> Undefined,
          sample |-> ArrayValue(parseDataInput(stats.dataInput)),
          sample2 |-> IF stats.hypothesisSubtype \in {"two_sample", "paired"}
                      THEN ArrayValue(parseDataInput(stats.secondDataInput))
                      ELSE Undefined]
    [] OTHER -> [data |-> Undefined, sample |-> Undefined, sample2 |-> Undefined]

\* the validation of handleCalculate: the message thrown, "" if none
Thrown(payload) ==
  LET typeError(name) == "payload." \o name \o ".trim is not a function"
  IN CASE stats.statType = "descriptive" /\ Validate(payload.data) # "passed" ->
            "Please enter valid data points"
       [] stats.statType = "hypothesis" /\ Validate(payload.sample) = "TypeError" ->
            typeError("sample")
       [] stats.statType = "hypothesis" /\ Validate(payload.sample) = "rejected" ->
            "Please enter valid data points"
       [] stats.statType = "regression" /\ Validate(payload.data) # "passed" ->
            "Please enter valid x,y data pairs"
       [] /\ stats.statType = "hypothesis"
          /\ stats.hypothesisSubtype \in {"two_sample", "paired"}
          /\ Validate(payload.sample2) = "TypeError" -> typeError("sample2")
       [] /\ stats.statType = "hypothesis"
          /\ stats.hypothesisSubtype \in {"two_sample", "paired"}
          /\ Validate(payload.sample2) = "rejected" ->
            "Please enter valid data for the second sample"
       [] OTHER -> ""

handleCalculate ==
  LET started == [stats EXCEPT !.loading = TRUE, !.error = "",
                               !.visualizationImage = Null,
                               !.visualizationType = Null]
      payload == CalculatePayload
      thrown == Thrown(payload)
  IN /\ ~stats.loading
     /\ IF thrown # ""
        THEN /\ stats' = [started EXCEPT !.error = thrown, !.results = Null,
                                         !.loading = FALSE]
             /\ UNCHANGED requests
        ELSE /\ stats' = started
             /\ requests' = Append(requests,
                                   [handler |-> "handleCalculate",
                                    type |-> stats.statType,
                                    endpoint |-> <<"api", "stats", stats.statType>>,
                                    payload |-> payload])
     /\ lastOp' = Untracked("handleCalculate", Empty, FALSE)
     /\ UNCHANGED <<Store, Locals, Panels>>

\* the request of handleCalculate settles, with a response or a failure
calculationSettles(i) ==
  /\ i \in 1..Len(requests)
  /\ requests[i].handler = "handleCalculate"
  /\ \/ stats' = [stats EXCEPT !.results = requests[i].type, !.loading = FALSE]
     \/ \E message \in RequestFailures :
          stats' = [stats EXCEPT !.error = message, !.results = Null,
                                 !.loading = FALSE]
  /\ requests' = RemoveAt(requests, i)
  /\ lastOp' = Untracked("calculationSettles", Empty, FALSE)
  /\ UNCHANGED <<Store, Locals, Panels>>

\* the panel with its fields filled in: the data, the second sample and the
\* selections are what the user has entered
InitStats ==
  /\ display = <<"0">>
  /\ input = Empty
  /\ result = Empty
  /\ latex = Empty
  /\ memory = NoMemory
  /\ history = << >>
  /\ mode = "DEG"
  /\ isShiftActive = FALSE
  /\ isInverseActive = FALSE
  /\ isHyperbolicActive = FALSE
  /\ precision = DefaultPrecision
  /\ error = Null
  /\ lastOp = Untracked("create", Empty, FALSE)
  /\ sanitizedInput = Empty
  /\ valueToFormat = StringValue(Empty)
  /\ formattedResult = Empty
  /\ \E d \in {Empty, <<" ">>, <<"1", ",", " ", "2">>, <<"a">>},
        d2 \in {Empty, <<"3">>},
        t \in {"descriptive", "regression", "distribution", "hypothesis"},
        h \in {"one_sample", "two_sample", "paired"} :
        stats = [StatsIdle EXCEPT !.dataInput = d, !.secondDataInput = d2,
                                  !.statType = t, !.hypothesisSubtype = h]
  /\ requests = << >>
  /\ units = UnitsIdle
  /\ graph = GraphIdle
  /\ matrix = MatrixIdle
  /\ cas = CasIdle

NextStats ==
  \/ \E type \in {"histogram", "boxplot"} :
        handleVisualization(type) /\ Len(requests') <= MaxRequests
  \/ \E i \in 1..Len(requests) : visualizationSettles(i)
  \/ handleCalculate /\ Len(requests') <= MaxRequests
  \/ \E i \in 1..Len(requests) : calculationSettles(i)

SpecStats == InitStats /\ [][NextStats]_vars

(***************************************************************************)
(* The modifier keys SHIFT, INV and HYP and the precision setting.         *)
(***************************************************************************)
toggleShift ==
  /\ isShiftActive' = ~isShiftActive
  /\ lastOp' = Op("toggleShift", Empty)
  /\ UNCHANGED <<display, input, result, latex, memory, history, mode, error,
                 isInverseActive, isHyperbolicActive, precision, Components>>

toggleInverse ==
  /\ isInverseActive' = ~isInverseActive
  /\ lastOp' = Op("toggleInverse", Empty)
  /\ UNCHANGED <<display, input, result, latex, memory, history, mode, error,
                 isShiftActive, isHyperbolicActive, precision, Components>>

toggleHyperbolic ==
  /\ isHyperbolicActive' = ~isHyperbolicActive
  /\ lastOp' = Op("toggleHyperbolic", Empty)
  /\ UNCHANGED <<display, input, result, latex, memory, history, mode, error,
                 isShiftActive, isInverseActive, precision, Components>>

setPrecision(p) ==
  /\ precision' = p
  /\ lastOp' = Op("setPrecision", Empty)
  /\ UNCHANGED <<display, input, result, latex, memory, history, mode, error,
                 isShiftActive, isInverseActive, isHyperbolicActive,
                 Components>>

\* the operations that change a modifier field
ModifierOps == {"toggleShift", "toggleInverse", "toggleHyperbolic",
                "setPrecision"}

\* the store operation that an entry of the ghost record names
Operation(o) ==
  CASE o.name = "appendToInput" -> appendToInput(o.arg)
    [] o.name = "calculate" -> calculate
    [] o.name = "clearInput" -> clearInput
    [] o.name = "clearAll" -> clearAll
    [] o.name = "storeInMemory" -> storeInMemory("M", Empty)
    [] o.name = "recallFromMemory" -> recallFromMemory("M")
    [] o.name = "clearMemory" -> clearMemory("M")
    [] OTHER -> FALSE

\* the keys of the store together with the modifier keys
NextMod ==
  \/ appendToInput(<<"1">>) /\ Len(input') <= MaxInputLen
  \/ clearInput
  \/ clearAll
  \/ calculate /\ Len(history') <= MaxHistory
  \/ /\ Len(ValueToStore(Empty)) <= MaxInputLen
     /\ storeInMemory("M", Empty)
     /\ MemoryWithin(memory')
  \/ clearMemory("M")
  \/ toggleShift
  \/ toggleInverse
  \/ toggleHyperbolic
  \/ \E p \in {DefaultPrecision, 1} : setPrecision(p)

SpecMod == Init /\ [][NextMod]_vars

(***************************************************************************)
(* The Units, Graph, Matrix and CAS panels.  Each handler runs up to its   *)
(* await in one step; its request settles in a later step, with a response *)
(* that carries the data of its API or with a failure.  A handler is       *)
(* called from its button, which the panel disables while loading.         *)
(***************************************************************************)
handleConvert ==
  /\ ~units.loading
  /\ IF units.fromValue = Empty \/ parseFloat(units.fromValue) = NaN
     THEN units' = [units EXCEPT !.error = "Please enter a valid number"]
     ELSE units' = [units EXCEPT !.error = "", !.loading = TRUE,
                                 !.pending = @ + 1]
  /\ lastOp' = Untracked("handleConvert", Empty, FALSE)
  /\ UNCHANGED <<Store, Locals, Stats, graph, matrix, cas>>

\* a conversion whose failure leaves the panel loading
convertSettlesNoFinally ==
  /\ units.pending > 0
  /\ \/ units' = [units EXCEPT !.toValue = "result", !.formula = "formula",
                                !.loading = FALSE, !.pending = @ - 1]
     \/ units' = [units EXCEPT
                    !.error = "Error during conversion. Please try again.",
                    !.pending = @ - 1]
  /\ lastOp' = Untracked("convertSettles", Empty, FALSE)
  /\ UNCHANGED <<Store, Locals, Stats, graph, matrix, cas>>

convertSettles ==
  /\ units.pending > 0
  /\ \/ units' = [units EXCEPT !.toValue = "result", !.formula = "formula",
                                !.loading = FALSE, !.pending = @ - 1]
     \/ units' = [units EXCEPT
                    !.error = "Error during conversion. Please try again.",
                    !.loading = FALSE, !.pending = @ - 1]
  /\ lastOp' = Untracked("convertSettles", Empty, FALSE)
  /\ UNCHANGED <<Store, Locals, Stats, graph, matrix, cas>>

\* a >= b for two numbers that are not NaN
AtLeast(a, b) == NumOf(a) * DenOf(b) >= NumOf(b) * DenOf(a)

handlePlot ==
  LET xMinVal == parseFloat(graph.xMin)
      xMaxVal == parseFloat(graph.xMax)
      yMinVal == parseFloat(graph.yMin)
      yMaxVal == parseFloat(graph.yMax)
      thrown == IF NaN \in {xMinVal, xMaxVal, yMinVal, yMaxVal}
                THEN "Range values must be valid numbers"
                ELSE IF AtLeast(xMinVal, xMaxVal)
                THEN "X Min must be less than X Max"
                ELSE IF AtLeast(yMinVal, yMaxVal)
                THEN "Y Min must be less than Y Max"
                ELSE ""
  IN /\ ~graph.isLoading
     /\ IF thrown # ""
        THEN graph' = [graph EXCEPT !.error = thrown, !.plotImage = "",
                                    !.isLoading = FALSE]
        ELSE graph' = [graph EXCEPT !.error = "", !.isLoading = TRUE,
                                    !.pending = @ + 1]
     /\ lastOp' = Untracked("handlePlot", Empty, FALSE)
     /\ UNCHANGED <<Store, Locals, Stats, units, matrix, cas>>

plotSettles ==
  /\ graph.pending > 0
  /\ \/ graph' = [graph EXCEPT !.plotImage = "image", !.isLoading = FALSE,
                                !.pending = @ - 1]
     \/ \E message \in RequestFailures :
          graph' = [graph EXCEPT !.error = message, !.plotImage = "",
                                 !.isLoading = FALSE, !.pending = @ - 1]
  /\ lastOp' = Untracked("plotSettles", Empty, FALSE)
  /\ UNCHANGED <<Store, Locals, Stats, units, matrix, cas>>

\* the operations of the switch in MatrixCalculator.handleCalculate
MatrixOperations ==
  {"add", "subtract", "multiply", "determinant", "inverse", "transpose",
   "eigenvalues", "rank"}

\* MatrixCalculator.handleCalculate
matrixCalculate ==
  /\ matrix.mounted /\ ~matrix.effectPending
  /\ ~matrix.isLoading
  /\ IF matrix.operation \in MatrixOperations
     THEN matrix' = [matrix EXCEPT !.isLoading = TRUE, !.error = "",
                                   !.result = Null, !.pending = @ + 1]
     ELSE matrix' = [matrix EXCEPT !.isLoading = FALSE, !.result = Null,
                                   !.error = "Unsupported operation"]
  /\ lastOp' = Untracked("matrixCalculate", Empty, FALSE)
  /\ UNCHANGED <<Store, Locals, Stats, units, graph, cas>>

matrixSettles ==
  /\ matrix.pending > 0
  /\ \/ matrix' = [matrix EXCEPT !.result = "data", !.isLoading = FALSE,
                                  !.pending = @ - 1]
     \/ \E message \in RequestFailures :
          matrix' = [matrix EXCEPT !.error = message, !.isLoading = FALSE,
                                   !.pending = @ - 1]
  /\ lastOp' = Untracked("matrixSettles", Empty, FALSE)
  /\ UNCHANGED <<Store, Locals, Stats, units, graph, cas>>

handleOperation(op) ==
  /\ ~cas.loading /\ cas.input # Empty
  /\ IF cas.input = Empty
     THEN cas' = [cas EXCEPT !.operation = op,
                             !.error = "Please enter an expression"]
     ELSE cas' = [cas EXCEPT !.operation = op, !.loading = TRUE, !.error = "",
                             !.pending = @ + 1]
  /\ lastOp' = Untracked("handleOperation", Empty, FALSE)
  /\ UNCHANGED <<Store, Locals, Stats, units, graph, matrix>>

\* the fetch of handleOperation settles: a response that is ok, one that is
\* not (its statusText is thrown), or a failure
operationSettles ==
  /\ cas.pending > 0
  /\ \/ cas' = [cas EXCEPT !.result = "result", !.latex = "latex",
                            !.loading = FALSE, !.pending = @ - 1]
     \/ \E message \in {"Error: Bad Request", "Failed to fetch"} :
          cas' = [cas EXCEPT !.error = message, !.result = "", !.latex = "",
                             !.loading = FALSE, !.pending = @ - 1]
  /\ lastOp' = Untracked("operationSettles", Empty, FALSE)
  /\ UNCHANGED <<Store, Locals, Stats, units, graph, matrix>>

\* the panels with their fields filled in by the user
InitPanels ==
  /\ display = <<"0">>
  /\ input = Empty
  /\ result = Empty
  /\ latex = Empty
  /\ memory = NoMemory
  /\ history = << >>
  /\ mode = "DEG"
  /\ isShiftActive = FALSE
  /\ isInverseActive = FALSE
  /\ isHyperbolicActive = FALSE
  /\ precision = DefaultPrecision
  /\ error = Null
  /\ lastOp = Untracked("create", Empty, FALSE)
  /\ sanitizedInput = Empty
  /\ valueToFormat = StringValue(Empty)
  /\ formattedResult = Empty
  /\ stats = StatsIdle
  /\ requests = << >>
  /\ \E v \in {Empty, <<"1">>, <<"a">>} : units = [UnitsIdle EXCEPT !.fromValue = v]
  /\ \E r \in {<<GraphIdle.xMin, GraphIdle.xMax>>, <<<<"a">>, <<"1">>>>,
                <<<<"1">>, <<"1">>>>} :
        graph = [GraphIdle EXCEPT !.xMin = r[1], !.xMax = r[2]]
  /\ matrix = MatrixIdle
  /\ \E v \in {Empty, <<"x">>} : cas = [CasIdle EXCEPT !.input = v]

NextPanels ==
  \/ handleConvert
  \/ convertSettles
  \/ handlePlot
  \/ plotSettles
  \/ matrixCalculate
  \/ matrixSettles
  \/ \E op \in {"simplify", "factor"} : handleOperation(op)
  \/ operationSettles

SpecPanels == InitPanels /\ [][NextPanels]_vars

(***************************************************************************)
(* The matrix panel: its size fields, the effect that follows a change of  *)
(* size, and the cells.  React runs the effect after the render that       *)
(* follows the change and before the next event is handled.                *)
(***************************************************************************)
\* parseInt(e.target.value) || 1, for the text of a number field that has no
\* exponent
parseIntOrOne(text) ==
  LET v == parseFloat(text)
      n == IF NumOf(v) < 0 THEN -((-NumOf(v)) \div DenOf(v))
           ELSE NumOf(v) \div DenOf(v)
  IN IF ~IsFiniteNum(v) \/ n = 0 THEN 1 ELSE n

setRows(text) ==
  /\ matrix.mounted /\ ~matrix.effectPending
  /\ matrix' = [matrix EXCEPT !.rows = parseIntOrOne(text),
                              !.effectPending = parseIntOrOne(text) # matrix.rows]
  /\ lastOp' = Untracked("setRows", text, FALSE)
  /\ UNCHANGED <<Store, Locals, Stats, units, graph, cas>>

setCols(text) ==
  /\ matrix.mounted /\ ~matrix.effectPending
  /\ matrix' = [matrix EXCEPT !.cols = parseIntOrOne(text),
                              !.effectPending = parseIntOrOne(text) # matrix.cols]
  /\ lastOp' = Untracked("setCols", text, FALSE)
  /\ UNCHANGED <<Store, Locals, Stats, units, graph, cas>>

\* the effect on [rows, cols]; Array(n) throws a RangeError for a negative
\* n, and an error thrown by an effect unmounts the component
matrixEffect ==
  /\ matrix.mounted /\ matrix.effectPending
  /\ IF matrix.rows < 0 \/ matrix.cols < 0
     THEN matrix' = [matrix EXCEPT !.effectPending = FALSE,
                                  !.mounted = FALSE]
     ELSE matrix' = [matrix EXCEPT
                       !.matrixA = ZeroMatrix(matrix.rows, matrix.cols),
                       !.matrixB = ZeroMatrix(matrix.rows, matrix.cols),
                       !.effectPending = FALSE]
  /\ lastOp' = Untracked("matrixEffect", Empty, FALSE)
  /\ UNCHANGED <<Store, Locals, Stats, units, graph, cas>>

\* the cells shown are those of the matrices; matrix B is shown for the
\* operations that take two matrices
handleMatrixChange(name, rowIndex, colIndex, value) ==
  /\ matrix.mounted /\ ~matrix.effectPending
  /\ name = "B" => matrix.operation \in {"add", "subtract", "multiply"}
  /\ IF name = "A"
     THEN /\ rowIndex \in DOMAIN matrix.matrixA
          /\ colIndex \in DOMAIN matrix.matrixA[rowIndex]
          /\ matrix' = [matrix EXCEPT !.matrixA[rowIndex][colIndex] = value]
     ELSE /\ rowIndex \in DOMAIN matrix.matrixB
          /\ colIndex \in DOMAIN matrix.matrixB[rowIndex]
          /\ matrix' = [matrix EXCEPT !.matrixB[rowIndex][colIndex] = value]
  /\ lastOp' = Untracked("handleMatrixChange",
                         <<name, rowIndex, colIndex, value>>, FALSE)
  /\ UNCHANGED <<Store, Locals, Stats, units, graph, cas>>

\* MatrixCalculator.handleClear
matrixClear ==
  /\ matrix.mounted /\ ~matrix.effectPending
  /\ matrix' = [matrix EXCEPT
                  !.matrixA = ZeroMatrix(matrix.rows, matrix.cols),
                  !.matrixB = ZeroMatrix(matrix.rows, matrix.cols),
                  !.result = Null, !.error = ""]
  /\ lastOp' = Untracked("matrixClear", Empty, FALSE)
  /\ UNCHANGED <<Store, Locals, Stats, units, graph, cas>>

\* the texts typed into the Rows and Columns fields
SizeTexts == {<<"2">>, <<"4">>, <<"-", "2">>, Empty}

NextMatrix ==
  \/ \E text \in SizeTexts : setRows(text)
  \/ \E text \in SizeTexts : setCols(text)
  \/ matrixEffect
  \/ \E name \in {"A", "B"} : \E rowIndex, colIndex \in 1..MaxIndex :
       \E value \in {<<"0">>, <<"5">>} :
         handleMatrixChange(name, rowIndex, colIndex, value)
  \/ matrixClear

\* the matrix panel as mounted, the other panels untouched
InitMatrix ==
  /\ InitPanels
  /\ units = UnitsIdle
  /\ graph = GraphIdle
  /\ cas = CasIdle

SpecMatrix == InitMatrix /\ [][NextMatrix]_vars

(***************************************************************************)
(* The properties of the store.                                            *)
(***************************************************************************)
\* a calculate step that ran on a non-empty input and succeeded
CalculateSucceeded ==
  lastOp'.name = "calculate" /\ input # Empty /\ error' = Null /\ result' # Empty

\* C1: the history never holds more than 100 entries, and a calculation that
\* succeeds while the history holds 100 entries puts its entry first, drops
\* the last (oldest) entry and keeps the other 99 in their order.
C1_HistoryCapped ==
  /\ [](Len(history) <= HistoryCap)
  /\ [][(CalculateSucceeded /\ Len(history) = HistoryCap)
         => /\ Len(history') = HistoryCap
            /\ history'[1].input = input
            /\ history'[1].result = result'
            /\ \A i \in 2..HistoryCap : history'[i] = history[i - 1]]_vars

\* a second calculation has succeeded on a full history: the two newest
\* entries come from the keys explored and the two oldest seeds are gone
C1_Witness ==
  /\ lastOp.name = "calculate" /\ error = Null
  /\ Len(history) = HistoryCap
  /\ history[1].input \notin SeedInputSet
  /\ history[2].input \notin SeedInputSet
  /\ history[HistoryCap] = SeedHistory[HistoryCap - 2]

\* the value eval gives for the input is an infinity or NaN
NonFiniteValue(r) == r.st = "ok" /\ r.v.k \in {"pinf", "ninf", "nan"}
EvaluatesNonFinite(input_, mode_) ==
  NonFiniteValue(Eval(prepareInputForCalculation(input_, mode_)))

\* C2: when calculate runs on a non-empty input whose evaluation yields a
\* non-finite value (such as "1/0"), error is set to a non-empty message and
\* display and history are unchanged.
C2_NonFiniteSetsError ==
  [][(lastOp'.name = "calculate" /\ input # Empty
        /\ EvaluatesNonFinite(input, mode))
       => (error' # Null /\ display' = display /\ history' = history)]_vars

\* calculate has run on "1/0": the quotient is shown as a result and recorded
C2_InfinityShown ==
  /\ lastOp.name = "calculate"
  /\ input = <<"1", "/", "0">>
  /\ error = Null
  /\ display = StrInfinity
  /\ result = StrInfinity
  /\ Len(history) = 1 /\ history[1].input = input

\* the input is one trigonometric call on a numeric literal, such as sin(30)
IsTrigCall(input_) ==
  \E f \in {StrSinOpen, StrCosOpen, StrTanOpen} :
    /\ Len(input_) > Len(f) + 1
    /\ StartsWith(input_, f)
    /\ input_[Len(input_)] = ")"
    /\ \A i \in (Len(f) + 1)..(Len(input_) - 1) : input_[i] \in Digits

\* C3: in DEG mode, calculate on a trigonometric call with a numeric
\* argument (such as "sin(30)") succeeds without setting error.
C3_DegTrigSucceeds ==
  [][(lastOp'.name = "calculate" /\ mode = "DEG" /\ IsTrigCall(input))
       => (error' = Null /\ result' # Empty)]_vars

\* calculate has run in DEG mode on sin(1) and has set the error
C3_DegTrigFails ==
  /\ lastOp.name = "calculate"
  /\ mode = "DEG"
  /\ input = StrSinOpen \o <<"1", ")">>
  /\ error = ErrorMessage
  /\ result = Empty
  /\ history = << >>

\* C4: after appendToInput(token), for any token and from any state, error
\* is null.
C4_AppendClearsError ==
  [][(lastOp'.name = "appendToInput") => (error' = Null)]_vars

\* a digit has been appended while a result was present, and the error of
\* the failed calculation before it is still set
C4_ErrorSurvivesAppend ==
  /\ lastOp.name = "appendToInput"
  /\ lastOp.hadResult
  /\ lastOp.arg = <<"1">>
  /\ input = <<"1">>
  /\ error = ErrorMessage

\* C5: when calculate runs on a non-empty input whose evaluation succeeds
\* with formatted value r, then result = r, display = r, latex is
\* input + " = " + r, the first history entry is {input, result: r, latex}
\* and error is null.
C5_SuccessEffects ==
  [][(lastOp'.name = "calculate" /\ input # Empty /\ Evaluate(input, mode).ok)
       => /\ result' = Evaluate(input, mode).s
          /\ display' = Evaluate(input, mode).s
          /\ latex' = input \o <<" ", "=", " ">> \o Evaluate(input, mode).s
          /\ Len(history') >= 1
          /\ history'[1] = [input |-> input,
                            result |-> Evaluate(input, mode).s,
                            latex |-> latex']
          /\ error' = Null]_vars

\* calculate has succeeded on a quotient whose value is written differently
\* from the input
C5_Witness ==
  /\ lastOp.name = "calculate"
  /\ input = <<"1", "/", "1">>
  /\ result = <<"1">> /\ display = <<"1">>
  /\ latex = <<"1", "/", "1", " ", "=", " ", "1">>
  /\ Len(history) = 1 /\ history[1].result = <<"1">>
  /\ error = Null

\* C6: when calculate runs on a non-empty input and the rewrite or the
\* evaluator throws, error is set to a non-empty message and input, display,
\* result, history and memory are unchanged.
C6_FailureEffects ==
  [][(lastOp'.name = "calculate" /\ input # Empty /\ ~Evaluate(input, mode).ok)
       => /\ error' = ErrorMessage /\ error' # Null /\ ErrorMessage # ""
          /\ UNCHANGED <<input, display, result, history, memory>>]_vars

\* calculate has failed on an unclosed parenthesis after an earlier result,
\* with a value in memory and an entry in the history
C6_Witness ==
  /\ lastOp.name = "calculate"
  /\ error = ErrorMessage
  /\ input = <<"1", "(">> /\ display = input
  /\ result # Empty
  /\ Len(history) = 1
  /\ DOMAIN memory # {}

\* C7: a failed calculate never prevents later calculations: in every state
\* after it every store operation is enabled, the entry recorded before the
\* failure stays the oldest of the history, and a calculate on a valid
\* input succeeds, clears error and adds exactly one entry in front of the
\* entries the history held.
C7_RetryWorks ==
  /\ [](/\ ENABLED calculate
        /\ ENABLED clearInput
        /\ ENABLED clearAll
        /\ ENABLED backspace
        /\ ENABLED clearHistory
        /\ \A v \in Tokens : ENABLED appendToInput(v)
        /\ \A k \in Slots : /\ ENABLED storeInMemory(k, Empty)
                             /\ ENABLED recallFromMemory(k)
                             /\ ENABLED clearMemory(k))
  /\ [](Len(history) >= 1 /\ history[Len(history)] = PriorEntry)
  /\ [][(lastOp'.name = "calculate" /\ input # Empty /\ Evaluate(input, mode).ok)
         => /\ error' = Null
            /\ result' = Evaluate(input, mode).s
            /\ Len(history') = Len(history) + 1
            /\ history'[1].input = input
            /\ SubSeq(history', 2, Len(history')) = history]_vars

\* after the failure the input was replaced by a digit, the error still
\* shown, and the calculation that followed succeeded and was recorded in
\* front of the earlier entry
C7_Witness ==
  /\ lastOp.name = "calculate"
  /\ error = Null
  /\ input = <<"1">> /\ result = <<"1">>
  /\ Len(history) = 2
  /\ history[1] = HistoryEntry(<<"1">>, <<"1">>)
  /\ history[2] = PriorEntry

\* C8: in every reachable state display equals input, or equals the result
\* of a calculation, or is the "0" placeholder while input is empty.
C8_DisplayMirrors ==
  \/ display = input
  \/ (result # Empty /\ display = result)
  \/ (display = <<"0">> /\ input = Empty)

\* after a calculation whose value is written differently from its input the
\* display shows the result, not the input
C8_Witness ==
  /\ lastOp.name = "calculate"
  /\ input = <<"-", "0">>
  /\ result = <<"0">>
  /\ display = result
  /\ display # input

\* the digit tokens of the keypad
DigitTokens == {<<d>> : d \in Digits}

C10_OperatorContinues ==
  [][(lastOp'.name = "appendToInput" /\ result # Empty
        /\ lastOp'.arg \in OperatorTokens)
       => /\ input' = result \o lastOp'.arg
          /\ display' = result \o lastOp'.arg
          /\ result' = Empty]_vars

\* the remainder sign was appended to the result 1 of the input +1
C10_Witness ==
  /\ lastOp = Untracked("appendToInput", <<"%">>, TRUE)
  /\ Len(history) = 1 /\ history[1].input = <<"+", "1">>
  /\ input = <<"1", "%">>
  /\ display = <<"1", "%">>
  /\ result = Empty

\* C11: starting with no result present, n appends followed by n backspaces
\* leave input equal to its value before the first append, for every n and
\* every token the keypad appends.
C11_BackspacesUndoAppends ==
  [][(lastOp'.name = "backspace" /\ lastOp.depth = 1)
       => input' = lastOp.origin]_vars

\* the sine key was pressed on an empty input and one backspace followed:
\* three of its four characters are left
C11_SineLeftBehind ==
  /\ lastOp.name = "backspace"
  /\ lastOp.tracked /\ lastOp.depth = 0
  /\ input = <<"s", "i", "n">>
  /\ display = input
  /\ result = Empty /\ history = << >>

\* C12: backspace on a non-empty input removes exactly the last character
\* of input, sets display to the new input (or to "0" when the new input is
\* empty) and clears result and error; backspace on an empty input leaves
\* the whole state unchanged.
C12_Backspace ==
  [][(lastOp'.name = "backspace")
       => IF input # Empty
          THEN /\ input' \o <<input[Len(input)]>> = input
               /\ display' = (IF input' = Empty THEN <<"0">> ELSE input')
               /\ result' = Empty
               /\ error' = Null
          ELSE UNCHANGED <<display, input, result, latex, memory, history,
                           mode, Modifiers, error>>]_vars

\* backspace has removed the parenthesis appended after the result 1 and has
\* cleared that result
C12_Witness ==
  /\ lastOp.name = "backspace"
  /\ lastOp.hadResult
  /\ input = <<"1">>
  /\ display = <<"1">>
  /\ result = Empty
  /\ error = Null
  /\ Len(history) = 1 /\ history[1].result = <<"1">>

\* C13: when storeInMemory(slot) is called without an explicit value and the
\* slot already holds a value, the slot afterwards holds the numeric sum of
\* its old value and the value being stored; into an empty slot the value is
\* stored as it is, so that two such stores in a row with results a then b
\* leave a + b ("5" then "3" gives "8").  The values are integers here, read
\* and written in decimal.
C13_MemoryAccumulates ==
  [][(lastOp'.name = "storeInMemory" /\ lastOp'.arg = Empty)
       => LET IntOf(t) == IF t[1] = "-" THEN 0 - ParseNat(Tail(t))
                          ELSE ParseNat(t)
              IntToStr(i) == IF i < 0 THEN <<"-">> \o NatToStr(0 - i)
                             ELSE NatToStr(i)
              stored == IF result # Empty THEN result
                        ELSE IF display # Empty THEN display ELSE input
          IN \A k \in Slots :
               /\ k \in DOMAIN memory'
               /\ memory'[k] =
                    IF MemoryGet(memory, k) # Empty
                    THEN IntToStr(IntOf(memory[k]) + IntOf(stored))
                    ELSE stored]_vars

\* the result 3 has been added to a slot that held 5
C13_Witness ==
  /\ lastOp.name = "storeInMemory" /\ lastOp.arg = Empty
  /\ result = <<"3">>
  /\ MemoryGet(memory, "M") = <<"8">>

\* C14: storeInMemory(slot, explicit) with an explicit value sets the slot to
\* exactly that value whatever the slot held before; without an explicit
\* value the value stored, or added to the value the slot holds, is result
\* if non-empty, else display, else input.
C14_StoredValue ==
  [][(lastOp'.name = "storeInMemory")
       => \A k \in Slots :
            /\ k \in DOMAIN memory'
            /\ LET stored == IF result # Empty THEN result
                             ELSE IF display # Empty THEN display
                             ELSE input
               IN memory'[k] =
                    IF lastOp'.arg # Empty THEN lastOp'.arg
                    ELSE IF MemoryGet(memory, k) # Empty
                         THEN Sum(memory[k], stored)
                         ELSE stored]_vars

\* the M- button has written the difference 5 - 3 over the 5 the slot held,
\* while the result shown was 3
C14_Witness ==
  /\ lastOp.name = "storeInMemory"
  /\ lastOp.arg = <<"2">>
  /\ MemoryGet(memory, "M") = <<"2">>
  /\ display = <<"3">> /\ result = <<"3">>

\* C15: recallFromMemory(slot) on a slot with value v: if a result is
\* active, input = v, display = v and result is cleared; otherwise
\* input = old input + v and display equals the new input.  In both cases
\* memory and history are unchanged.
C15_Recall ==
  [][(lastOp'.name = "recallFromMemory")
       => \A k \in Slots :
            MemoryGet(memory, k) # Empty
              => /\ IF result # Empty
                    THEN /\ input' = memory[k]
                         /\ display' = memory[k]
                         /\ result' = Empty
                    ELSE /\ input' = input \o memory[k]
                         /\ display' = input'
                 /\ UNCHANGED <<memory, history>>]_vars

\* the value 0 was recalled while the result 1 was active
C15_Witness ==
  /\ lastOp.name = "recallFromMemory"
  /\ lastOp.hadResult
  /\ MemoryGet(memory, "M") = <<"0">>
  /\ input = <<"0">> /\ display = <<"0">>
  /\ result = Empty
  /\ Len(history) = 1 /\ history[1].result = <<"1">>

\* C16: recallFromMemory on a slot that holds no value changes no field of
\* the state, error included.
C16_RecallMiss ==
  [][(lastOp'.name = "recallFromMemory"
        /\ \A k \in Slots : MemoryGet(memory, k) = Empty)
       => UNCHANGED <<display, input, result, latex, memory, history, mode,
                      Modifiers, error>>]_vars

\* a slot without a value was recalled while the error of a failed
\* calculation was shown
C16_Witness ==
  /\ lastOp.name = "recallFromMemory"
  /\ DOMAIN memory = {}
  /\ error = ErrorMessage
  /\ input = <<"1", "(">> /\ display = input
  /\ result = <<"1">>

\* C17: history changes only through a successful calculate, which
\* prepends one entry and at capacity evicts the oldest, and through
\* clearHistory, which empties it; the entries that stay keep their input,
\* result and annotation.
C17_HistoryChanges ==
  [][(history' # history)
       => \/ /\ lastOp'.name = "clearHistory"
             /\ history' = << >>
          \/ /\ lastOp'.name = "calculate"
             /\ CalculateSucceeded
             /\ Len(history') >= 1
             /\ history'[1].input = input
             /\ IF Len(history) < HistoryCap
                THEN Tail(history') = history
                ELSE /\ Len(history') = HistoryCap
                     /\ Tail(history') = SubSeq(history, 1, HistoryCap - 1)]_vars

\* a calculation on a full history evicted the oldest entry and kept the
\* other 99 as they were
C17_Witness ==
  /\ lastOp.name = "calculate"
  /\ Len(history) = HistoryCap
  /\ Fresh(history) = 2
  /\ history[3] = SeedHistory[1]
  /\ history[HistoryCap] = SeedHistory[HistoryCap - 2]

\* C18: calculate with an empty input changes no field of the state.
C18_CalculateEmpty ==
  [][(lastOp'.name = "calculate" /\ input = Empty)
       => UNCHANGED <<display, input, result, latex, memory, history, mode,
                      Modifiers, error>>]_vars

\* = was pressed on an empty input while the result of an earlier
\* calculation was still held
C18_Witness ==
  /\ lastOp.name = "calculate"
  /\ input = Empty /\ display = <<"0">>
  /\ result = <<"1">>
  /\ Len(history) = 1
  /\ error = Null

\* C19: clearAll sets input to empty, display to "0", result to empty, the
\* annotation to empty and error to none, and leaves history, memory and
\* mode unchanged.
C19_ClearAll ==
  [][(lastOp'.name = "clearAll")
       => /\ input' = Empty
          /\ display' = <<"0">>
          /\ result' = Empty
          /\ latex' = Empty
          /\ error' = Null
          /\ UNCHANGED <<history, memory, mode>>]_vars

\* AC was pressed after a calculation, with a value in memory
C19_Witness ==
  /\ lastOp.name = "clearAll"
  /\ lastOp.hadResult
  /\ input = Empty /\ display = <<"0">>
  /\ result = Empty /\ latex = Empty
  /\ Len(history) = 1
  /\ MemoryGet(memory, "M") # Empty

\* C20: clearInput sets input to empty and display to "0" and leaves
\* history and memory unchanged.
C20_ClearInput ==
  [][(lastOp'.name = "clearInput")
       => /\ input' = Empty
          /\ display' = <<"0">>
          /\ UNCHANGED <<history, memory>>]_vars

\* C was pressed after a calculation, with a value in memory: the result
\* and the history entry are still there
C20_Witness ==
  /\ lastOp.name = "clearInput"
  /\ lastOp.hadResult
  /\ input = Empty /\ display = <<"0">>
  /\ result = <<"1">>
  /\ Len(history) = 1
  /\ MemoryGet(memory, "M") # Empty

\* C21: clearMemory(slot) removes exactly that slot and leaves the value of
\* every other slot as it was; clearMemory() without a slot empties the
\* memory; neither changes input, display, result or history.
C21_ClearMemory ==
  [][(lastOp'.name = "clearMemory")
       => /\ IF lastOp'.arg = Empty
             THEN memory' = NoMemory
             ELSE /\ DOMAIN memory' = DOMAIN memory \ {lastOp'.arg[1]}
                  /\ \A k \in DOMAIN memory' : memory'[k] = memory[k]
          /\ UNCHANGED <<input, display, result, history>>]_vars

\* slot M was cleared after a calculation and slot A still holds its 10
C21_Witness ==
  /\ lastOp.name = "clearMemory"
  /\ lastOp.arg = <<"M">>
  /\ DOMAIN memory = {"A"}
  /\ memory["A"] = <<"1", "0">>
  /\ result # Empty
  /\ Len(history) = 1

\* C22: the rewrite turns every calculator token of the input into its own
\* target, once, whatever the tokens around it (log( into the base-10 call,
\* ln( into the natural-log call), and leaves the other characters as they
\* are.
C22_TokensRewrittenOnce ==
  [][LET Target(t) ==
        CASE t = <<"^">> -> <<"*", "*">>
          [] t = <<PiChar>> -> StrMathPI
          [] t = <<"e">> -> StrMathE
          [] t = StrSinOpen -> TrigReplacement(<<"s", "i", "n">>, mode)
          [] t = StrCosOpen -> TrigReplacement(<<"c", "o", "s">>, mode)
          [] t = StrTanOpen -> TrigReplacement(<<"t", "a", "n">>, mode)
          [] t = StrLogOpen ->
               <<"M", "a", "t", "h", ".", "l", "o", "g", "1", "0", "(">>
          [] t = StrLnOpen -> <<"M", "a", "t", "h", ".", "l", "o", "g", "(">>
          [] t = StrSqrtOpen ->
               <<"M", "a", "t", "h", ".", "s", "q", "r", "t", "(">>
          [] t = StrAbsOpen -> <<"M", "a", "t", "h", ".", "a", "b", "s", "(">>
          [] OTHER -> t
  IN (lastOp'.name = "prepareInputForCalculation")
          => \A ts \in TokenSeqs :
               Concat(ts) = input
                 => sanitizedInput' = Concat([i \in 1..Len(ts) |-> Target(ts[i])])]_vars

\* the input ln(log( was rewritten: each call got its own logarithm
C22_Witness ==
  /\ lastOp.name = "prepareInputForCalculation"
  /\ input = StrLnOpen \o StrLogOpen
  /\ sanitizedInput = <<"M", "a", "t", "h", ".", "l", "o", "g", "(",
                        "M", "a", "t", "h", ".", "l", "o", "g", "1", "0", "(">>

\* C23: formatNumber is total on numbers: positive infinity gives the
\* infinity sign, negative infinity the minus and the infinity sign, NaN
\* gives "Error", and every finite value a non-empty string; the length and
\* magnitude rules never see a non-finite value.
C23_FormatTotal ==
  (lastOp.name = "formatNumber" /\ valueToFormat.type = "number")
    => CASE valueToFormat.v.k = "pinf" -> formattedResult = <<InfinityChar>>
         [] valueToFormat.v.k = "ninf" -> formattedResult = <<"-", InfinityChar>>
         [] valueToFormat.v.k = "nan" -> formattedResult = <<"E", "r", "r", "o", "r">>
         [] OTHER -> formattedResult # Empty

\* one third of a million was formatted to ten significant digits
C23_Witness ==
  /\ lastOp.name = "formatNumber"
  /\ valueToFormat = NumberValue(Rat(1000000, 3))
  /\ formattedResult = <<"3", "3", "3", "3", "3", "3", ".", "3", "3", "3", "3">>

\* C24: whenever result is non-empty, display equals result.
C24_ResultIsShown ==
  result # Empty => display = result

\* the key ( was appended after the calculation 1 = 1: the result is still
\* held and the display shows the new input
C24_StaleResult ==
  /\ lastOp.name = "appendToInput"
  /\ lastOp.hadResult
  /\ result = <<"1">>
  /\ input = <<"1", "(">>
  /\ display = input

\* C25: the visualization image shown belongs to the visualizationType
\* shown, whatever the order in which the responses arrive, and loading is
\* false only when no request is outstanding.
C25_ImageMatchesType ==
  /\ stats.visualizationImage # Null
       => stats.visualizationImage = stats.visualizationType
  /\ ~stats.loading => requests = << >>

\* histogram then boxplot were started and the boxplot answered first: the
\* histogram's image is shown under the boxplot selection
C25_LateImage ==
  /\ lastOp.name = "visualizationSettles"
  /\ stats.visualizationType = "boxplot"
  /\ stats.visualizationImage = "histogram"
  /\ requests = << >>

\* C26: handleCalculate with statType "hypothesis" and a data input that
\* holds at least one number (and, for two_sample and paired, a second
\* sample that holds one) posts to /api/stats/hypothesis a payload with the
\* parsed sample (and sample2).
C26_HypothesisPosts ==
  [][(/\ lastOp'.name = "handleCalculate"
      /\ stats.statType = "hypothesis"
      /\ parseDataInput(stats.dataInput) # << >>
      /\ stats.hypothesisSubtype \in {"two_sample", "paired"}
            => parseDataInput(stats.secondDataInput) # << >>)
       => /\ Len(requests') = Len(requests) + 1
          /\ LET post == requests'[Len(requests')]
             IN /\ post.endpoint = <<"api", "stats", "hypothesis">>
                /\ post.payload.sample =
                     ArrayValue(parseDataInput(stats.dataInput))
                /\ stats.hypothesisSubtype \in {"two_sample", "paired"}
                     => post.payload.sample2 =
                          ArrayValue(parseDataInput(stats.secondDataInput))]_vars

\* a one-sample test on the data 1, 2 ended in the validation: no request
\* was sent and the TypeError is the error shown
C26_TrimThrows ==
  /\ lastOp.name = "handleCalculate"
  /\ stats.statType = "hypothesis"
  /\ stats.hypothesisSubtype = "one_sample"
  /\ stats.dataInput = <<"1", ",", " ", "2">>
  /\ stats.error = "payload.sample.trim is not a function"
  /\ ~stats.loading
  /\ requests = << >>

\* C27: in the Units, Graph, Matrix and CAS panels loading is true exactly
\* while a request is outstanding, at most one request is in flight per
\* panel, and when a request settles loading returns to false and the
\* result or a non-empty error is set.
C27_LoadingWhileOutstanding ==
  /\ [](/\ units.pending = (IF units.loading THEN 1 ELSE 0)
        /\ graph.pending = (IF graph.isLoading THEN 1 ELSE 0)
        /\ matrix.pending = (IF matrix.isLoading THEN 1 ELSE 0)
        /\ cas.pending = (IF cas.loading THEN 1 ELSE 0))
  /\ [][/\ units'.pending < units.pending
            => ~units'.loading /\ (units'.toValue = "result" \/ units'.error # "")
        /\ graph'.pending < graph.pending
            => ~graph'.isLoading /\ (graph'.plotImage = "image" \/ graph'.error # "")
        /\ matrix'.pending < matrix.pending
            => ~matrix'.isLoading /\ (matrix'.result = "data" \/ matrix'.error # "")
        /\ cas'.pending < cas.pending
            => ~cas'.loading /\ (cas'.result = "result" \/ cas'.error # "")]_vars

\* a conversion failed after an earlier one had succeeded, while the plot
\* request was still outstanding
C27_Witness ==
  /\ lastOp.name = "convertSettles"
  /\ units.toValue = "result"
  /\ units.error # ""
  /\ ~units.loading /\ units.pending = 0
  /\ graph.isLoading /\ graph.pending = 1

\* C28: the modifier fields never influence a calculation.  A toggle or
\* setPrecision changes its own field and nothing else of the store, and a
\* second toggle restores the flag; an append, calculate, memory or clear
\* operation leaves the modifiers alone and yields the same input, display,
\* result, error, history and memory when a modifier operation is done just
\* before it.  (Runs that differ only in modifier operations are joined by
\* chains of such exchanges.)
C28_ModifiersInert ==
  [][/\ lastOp'.name \in ModifierOps
        => /\ UNCHANGED <<input, display, result, error, history, memory>>
           /\ lastOp'.name # "toggleShift" => UNCHANGED isShiftActive
           /\ lastOp'.name # "toggleInverse" => UNCHANGED isInverseActive
           /\ lastOp'.name # "toggleHyperbolic" => UNCHANGED isHyperbolicActive
           /\ lastOp'.name # "setPrecision" => UNCHANGED precision
     /\ lastOp'.name = "toggleShift"
        => /\ isShiftActive' # isShiftActive
           /\ \E b \in {isShiftActive} :
                (ENABLED (toggleShift /\ isShiftActive' = b))'
     /\ lastOp'.name = "toggleInverse"
        => /\ isInverseActive' # isInverseActive
           /\ \E b \in {isInverseActive} :
                (ENABLED (toggleInverse /\ isInverseActive' = b))'
     /\ lastOp'.name = "toggleHyperbolic"
        => /\ isHyperbolicActive' # isHyperbolicActive
           /\ \E b \in {isHyperbolicActive} :
                (ENABLED (toggleHyperbolic /\ isHyperbolicActive' = b))'
     /\ lastOp'.name \notin ModifierOps
        => /\ UNCHANGED Modifiers
           /\ \E o \in {lastOp'} :
              \E after \in {<<input', display', result', error', history',
                               memory'>>} :
              \A p \in {DefaultPrecision, 1} :
                LET Same == (ENABLED (Operation(o) /\
                               <<input', display', result', error', history',
                                 memory'>> = after))'
                IN /\ ENABLED (toggleShift /\ Same)
                   /\ ENABLED (toggleInverse /\ Same)
                   /\ ENABLED (toggleHyperbolic /\ Same)
                   /\ ENABLED (setPrecision(p) /\ Same)]_vars

\* a calculation done with INV and HYP lit and the precision lowered
C28_Witness ==
  /\ lastOp.name = "calculate"
  /\ isInverseActive /\ isHyperbolicActive /\ ~isShiftActive
  /\ precision = 1
  /\ input = <<"1", "1">>
  /\ result = <<"1", "1">>
  /\ Len(history) = 1

\* C29: in every reachable state display is a non-empty string and input is
\* empty only when display is "0"; so a storeInMemory without an explicit
\* value always finds a value to store and always writes the slot.
C29_DisplayNeverEmpty ==
  /\ [](display # Empty /\ (input = Empty => display = <<"0">>))
  /\ [][lastOp'.name = "storeInMemory" /\ lastOp'.arg = Empty
        => /\ ValueToStore(Empty) # Empty
           /\ \A k \in Slots : /\ k \in DOMAIN memory'
                                /\ memory'[k] # Empty]_vars

\* the last character was erased and the "0" then shown was stored
C29_Witness ==
  /\ lastOp.name = "storeInMemory"
  /\ lastOp.arg = Empty
  /\ input = Empty
  /\ result = Empty
  /\ display = <<"0">>
  /\ Len(history) = 1
  /\ "M" \in DOMAIN memory
  /\ memory["M"] = <<"0">>

\* C30: once the effect on rows and cols has run, matrixA and matrixB each
\* have exactly rows rows of cols cells; a change of rows or cols resets both
\* to all "0" of the new shape; handleMatrixChange replaces exactly one cell
\* of the named matrix and leaves the shape, the other cells and the other
\* matrix unchanged.
C30_MatrixShape ==
  /\ [](~matrix.effectPending
        => /\ matrix.matrixA \in [1..matrix.rows -> [1..matrix.cols -> Seq({"0", "5"})]]
           /\ matrix.matrixB \in [1..matrix.rows -> [1..matrix.cols -> Seq({"0", "5"})]])
  /\ [][/\ lastOp'.name = "matrixEffect"
            => /\ matrix'.matrixA = ZeroMatrix(matrix.rows, matrix.cols)
               /\ matrix'.matrixB = ZeroMatrix(matrix.rows, matrix.cols)
        /\ lastOp'.name = "handleMatrixChange"
            => \E o \in {lastOp'.arg} :
                 LET old == IF o[1] = "A" THEN matrix.matrixA ELSE matrix.matrixB
                     new == IF o[1] = "A" THEN matrix'.matrixA ELSE matrix'.matrixB
                 IN /\ DOMAIN new = DOMAIN old
                    /\ \A i \in DOMAIN old :
                         /\ DOMAIN new[i] = DOMAIN old[i]
                         /\ \A j \in DOMAIN old[i] :
                              new[i][j] = IF i = o[2] /\ j = o[3] THEN o[4]
                                          ELSE old[i][j]
                    /\ o[1] = "A" => matrix'.matrixB = matrix.matrixB
                    /\ o[1] = "B" => matrix'.matrixA = matrix.matrixA
                    /\ matrix'.rows = matrix.rows /\ matrix'.cols = matrix.cols]_vars

\* -2 was typed into the Rows field: the effect threw, and the matrices kept
\* the three rows and the edited cell they had
C30_NegativeRows ==
  /\ lastOp.name = "matrixEffect"
  /\ ~matrix.mounted
  /\ matrix.rows = -2
  /\ Len(matrix.matrixA) = 3
  /\ matrix.matrixA[1][1] = <<"5">>

====
